---- MODULE Spec2Model ----
(***************************************************************************)
(* A model of the AWS Nitro Enclave attestation prover:                    *)
(*   - the X.509 certificate chain (crates/x509-verifier-rust-crypto),     *)
(*   - the attestation authentication pipeline and the Verifier guest      *)
(*     (crates/verifier, crates/risc0-methods, crates/sp1-methods),        *)
(*   - the host's batch proving (crates/prover).                           *)
(*                                                                         *)
(* Cryptography is symbolic: a hash is an injective constructor over its   *)
(* pre-image, a signature names the key that made it and the bytes it was  *)
(* made over, and it verifies under exactly that key over exactly those    *)
(* bytes.                                                                  *)
(***************************************************************************)
EXTENDS Integers, Sequences, FiniteSets, TLC

(* ------------------------------ bounds -------------------------------- *)

\* The longest certificate chain that is built (root .. leaf).
MaxChain == 3

\* Unix times (seconds) range over 0..MaxTime.
MaxTime == 3

\* The longest batch handed to prove_multiple_reports.
MaxBatch == 3

\* The largest PROVE_MAX_CONCURRENCY.
MaxConcurrency == 2

(* ------------------------- certificates (DER) -------------------------- *)

\* Key 0 is a key outside the honest chain (an attacker's); key i >= 1 is the
\* key certified by the i-th certificate of an honestly issued chain.
Keys == 0..MaxChain

Times == 0..MaxTime

\* Validity windows <<notBefore, notAfter>> a certificate is issued with.
Windows == {<<0, MaxTime>>, <<1, MaxTime - 1>>}

\* The u64 values a timestamp argument ranges over, with 2^64 scaled down to
\* TimestampSpace; `t as i64` maps the upper half to the negative numbers.
\* ASN1Time::from_timestamp accepts the times up to year 9999 on either side
\* of the epoch, a range well inside i64. The space keeps the default
\* max_time_diff of 3 hours far below it, as 2^64 does.
TimestampSpace == 4 * (3600 * 3 + MaxTime + 1)
AsI64(t) == IF t >= TimestampSpace \div 2 THEN t - TimestampSpace ELSE t
Asn1Times == (0 - (MaxTime + 1))..(MaxTime + 1)

\* The to-be-signed part of a certificate: subject key, validity, other bytes.
tbs_certificate(c) == [key |-> c.key, nb |-> c.nb, na |-> c.na, ser |-> c.ser]

\* A certificate as its issuer makes it: the TBS bytes and the issuer's
\* DER-wrapped signature over them.
Issue(issuerKey, k, w) ==
    [wf |-> TRUE, key |-> k, nb |-> w[1], na |-> w[2], ser |-> 0,
     sigEnc |-> TRUE, sigBy |-> issuerKey,
     sigOver |-> [key |-> k, nb |-> w[1], na |-> w[2], ser |-> 0]]

\* The i-th certificate of a chain honestly issued under root key r: the root
\* is self-signed, every other certificate is signed by its predecessor's key.
ChainKey(r, i) == IF i = 1 THEN r ELSE i
HonestCert(r, i, w) ==
    Issue(IF i = 1 THEN r ELSE ChainKey(r, i - 1), ChainKey(r, i), w)

\* Ways the bytes of a certificate are altered after it was signed.
TamperModes == {"body", "key", "sig", "sigenc", "der"}
Tamper(c, m) ==
    CASE m = "body"   -> [c EXCEPT !.ser = 1]       \* a TBS byte flipped
      [] m = "key"    -> [c EXCEPT !.key = 0]       \* subject key replaced
      [] m = "sig"    -> [c EXCEPT !.sigOver.ser = 2] \* signature bytes replaced
      [] m = "sigenc" -> [c EXCEPT !.sigEnc = FALSE] \* signature no longer DER (r,s)
      [] m = "der"    -> [c EXCEPT !.wf = FALSE]    \* certificate no longer DER

\* The DER buffers offered as the p-th certificate of a chain; the last one
\* has a notBefore earlier than the epoch.
DerInputs(p) ==
    {HonestCert(1, i, w) : i \in 1..MaxChain, w \in Windows}
      \cup {Tamper(HonestCert(1, p, <<0, MaxTime>>), m) : m \in TamperModes}
      \cup {HonestCert(1, p, <<-1, MaxTime>>) : q \in {p} \cap {1, 2}}

(* ------------------------------ hashing -------------------------------- *)

sha256(bytes) == [sha256 |-> bytes]

\* Cert::digest: SHA-256 of the certificate's DER bytes.
digest(c) == sha256(<<c>>)

(* --------------------------- signature checks -------------------------- *)

\* ec_decode_sig: DER-wrapped (r,s) to fixed-length r||s; fails on bytes that
\* are not a DER signature.
ec_decode_sig(c) == c.sigEnc

\* verify_signature(key, alg, sig, msg): the signature was made by `key` over `msg`.
verify_signature(key, sigBy, sigOver, msg) == sigBy = key /\ sigOver = msg

\* Cert::verify(issuer): "true", "false" (mismatch) or "err" (malformed data).
CertVerify(subject, issuer) ==
    IF ~ec_decode_sig(subject) THEN "err"
    ELSE IF verify_signature(issuer.key, subject.sigBy, subject.sigOver,
                             tbs_certificate(subject))
         THEN "true" ELSE "false"

(* ------------------------------ CertChain ------------------------------ *)

VARIABLES
    certs,          \* CertChain.certs, root -> leaf
    path_digest,    \* CertChain.path_digest
    ret             \* what the last call on the chain returned

VARIABLES
    stdin,          \* the bytes the host hands to the Verifier guest
    gpc,            \* where the Verifier guest is in main()
    ginput,         \* the decoded VerifierInput
    output,         \* what verify_attestation_report returned
    journal,        \* the slices the guest has committed, in order
    authTime        \* the times authenticate was called with, in order

VARIABLES
    contract,        \* the verifier contract's storage, or NoContract
    config,          \* ProverConfig
    current_time,    \* SystemTime::now(), in seconds
    raw_reports,     \* the reports handed to the proving entry point
    env_concurrency, \* the environment variable PROVE_MAX_CONCURRENCY
    env_prefix_length, \* the variable DEFAULT_TRUSTED_CERTS_PREFIX_LENGTH
    overflow_checks, \* the build traps integer overflow (debug profile)
    max_concurrency, \* gen_multi_composite_proofs: the limit read from it
    prep,            \* what prepare_verifier_inputs returned
    hpc,             \* where the proving entry point is
    tasks,           \* parallels_blocking: each task's state and result, by index
    proofs,          \* what gen_multi_composite_proofs returned
    agg,             \* what aggregate_proofs built and returned
    envelope         \* the OnchainProof

VARIABLES
    astdin,          \* the bytes the host hands to the Aggregator guest
    areceipts,       \* the receipts the host added to the run as assumptions
    apc,             \* where the Aggregator guest is in main()
    ainput,          \* the decoded BatchVerifierInput
    averified,       \* how many outputs the loop has verified
    ajournal         \* the slices the Aggregator guest has committed

VARIABLES
    qarg,            \* the argument of a batch_query_cert_cache call
    qret,            \* what that call returned
    vret             \* what verify_on_chain returned

chainVars == <<certs, path_digest, ret>>
aggVars == <<astdin, areceipts, apc, ainput, averified, ajournal>>
clientVars == <<qarg, qret, vret>>
restVars == <<aggVars, clientVars>>
guestVars == <<stdin, gpc, ginput, output, journal, authTime>>
hostVars ==
    <<contract, config, current_time, raw_reports, env_concurrency, env_prefix_length,
     overflow_checks, max_concurrency,
      prep, hpc, tasks, proofs, agg, envelope>>

NoRet == [op |-> "none", arg |-> 0, res |-> "none", checked |-> {}]

\* Cert::parse_der: fails on bytes that are not one DER certificate.
parse_der(buf) == buf.wf

\* The digest add_cert_by_der pushes for `cert` on a chain whose digests are `pd`.
MutNextPathDigestRoot(pd, cert) ==
    IF Len(pd) = 0 THEN digest(cert) ELSE sha256(<<pd[1], digest(cert)>>)
NextPathDigest(pd, cert) ==
    IF Len(pd) = 0 THEN digest(cert)
    ELSE sha256(<<pd[Len(pd)], digest(cert)>>)

\* Links verify_chain(n) walks, in order, stopping after the first link that
\* does not return Ok(true): the result and the indices (1-based) it verified.
RECURSIVE VerifyFrom(_, _, _)
VerifyFrom(cs, i, checked) ==
    IF i > Len(cs) THEN [res |-> "true", checked |-> checked]
    ELSE LET issuer == IF i = 1 THEN cs[i] ELSE cs[i - 1]
             r == CertVerify(cs[i], issuer)
         IN  IF r = "true" THEN VerifyFrom(cs, i + 1, checked \cup {i})
             ELSE [res |-> r, checked |-> checked \cup {i}]

MutVerifyChainFromZero(cs, n) ==
    IF n > Len(cs) THEN [res |-> "err", checked |-> {}]
    ELSE VerifyFrom(cs, 1, {})
MutVerifyChainSkipFirst(cs, n) ==
    IF n > Len(cs) THEN [res |-> "err", checked |-> {}]
    ELSE VerifyFrom(cs, n + 2, {})
MutVerifyChainStrictBound(cs, n) ==
    IF n >= Len(cs) THEN [res |-> "err", checked |-> {}]
    ELSE VerifyFrom(cs, n + 1, {})
MutVerifyChainNoLengthCheck(cs, n) == VerifyFrom(cs, n + 1, {})
\* CertChain::verify_chain(trusted_certs_len): links n+1..Len (1-based).
verify_chain(cs, n) ==
    IF n > Len(cs) THEN [res |-> "err", checked |-> {}]
    ELSE VerifyFrom(cs, n + 1, {})

\* Cert::check_valid(time): notBefore <= time <= notAfter.
CertValidAt(c, t) == c.nb <= t /\ t <= c.na

\* CertChain::check_valid(timestamp): 0 when every certificate is valid, else
\* the 1-based index of the first certificate that is not; -1 on an empty
\* chain; -2 when `timestamp as i64` is no ASN1Time.
RECURSIVE FirstInvalid(_, _, _)
FirstInvalid(cs, t, i) ==
    IF i > Len(cs) THEN 0
    ELSE IF ~CertValidAt(cs[i], t) THEN i
    ELSE FirstInvalid(cs, t, i + 1)
check_valid(cs, t) ==
    LET time == AsI64(t)
    IN  IF time \notin Asn1Times THEN -2
        ELSE IF Len(cs) = 0 THEN -1
        ELSE FirstInvalid(cs, time, 1)

(* ------------------------- attestation report -------------------------- *)

\* COSE algorithm identifiers (cose.rs, SignatureAlgorithm / sig_algo_val).
ES256 == -7
ES384 == -35

\* The validity window the i-th certificate of a report's chain is issued with.
WindowAt(i) == IF i = 1 THEN <<0, MaxTime>> ELSE <<1, MaxTime - 1>>

\* A PCR value, ByteArray<48>, as three 16-byte words (0 for a word of
\* zero bytes); Bytes48 splits it into first = bytes 0..32 and second =
\* bytes 32..48.
ZeroPcr == <<0, 0, 0>>
Bytes48(value) == [first |-> SubSeq(value, 1, 2), second |-> SubSeq(value, 3, 3)]

\* AttestationDocument: the fields authentication and the journal read.
Doc(ts, ders) ==
    [timestamp |-> ts,
     pcrs |-> [i \in {0} |-> <<1, 0, 0>>],
     cabundle |-> SubSeq(ders, 1, Len(ders) - 1),
     certificate |-> ders[Len(ders)]]

\* SigStructure::new_sign1: ["Signature1", protected, external_aad = empty, payload].
SigStructure(protected, payload) ==
    [context |-> "Signature1", protected |-> protected, aad |-> <<>>, payload |-> payload]

\* The bytes of a report: a COSE_Sign1 envelope around the document, signed
\* by `signer`. cbor = FALSE stands for bytes that do not parse.
\* Header variants: "alg" names ES256, "noalg" has no entry under key 1,
\* "textalg" has a text string there (isInt = FALSE).
CoseVariants == {"ok", "forged", "alg", "noalg", "textalg"}
CoseReport(doc, signer, v) ==
    LET protected == [hasAlg |-> v # "noalg", isInt |-> v # "textalg",
                      alg |-> IF v = "alg" THEN ES256 ELSE ES384]
    IN  [cbor |-> TRUE, protected |-> protected, payload |-> doc,
         sigBy |-> IF v = "forged" THEN 0 ELSE signer,
         sigOver |-> SigStructure(protected, doc)]

\* Chains of reports: honestly issued under root key r, at most one
\* certificate tampered with.
BaseChain(r, len) == [i \in 1..len |-> HonestCert(r, i, WindowAt(i))]
ReportChains ==
    UNION {{BaseChain(1, len)} \cup
           {[BaseChain(1, len) EXCEPT ![p] = Tamper(@, m)] :
                p \in 1..len, m \in TamperModes} : len \in 1..MaxChain}
ForeignChains == {BaseChain(0, len) : len \in 1..MaxChain}

\* Report timestamps, in milliseconds.
DocTimestamps == {999, 1000, 1000 * MaxTime}

BadReport ==
    [CoseReport(Doc(0, BaseChain(1, 1)), 1, "ok") EXCEPT !.cbor = FALSE]

\* AttestationReport::parse: CoseSign1::from_bytes, then the document.
AttestationReportParse(bytes) == bytes.cbor

\* The signature algorithms a caller can name: ES256, ES384 and ES512. The
\* last stands for every algorithm sig_algo_val has no COSE value for.
SigAlgos == {"EcdsaSHA256", "EcdsaSHA384", "EcdsaSHA512"}

\* CoseSign1::sig_algo_val: the COSE algorithm value, or an error.
sig_algo_val(sig_algo) ==
    CASE sig_algo = "EcdsaSHA256" -> [ok |-> TRUE, val |-> ES256]
      [] sig_algo = "EcdsaSHA384" -> [ok |-> TRUE, val |-> ES384]
      [] OTHER -> [ok |-> FALSE, val |-> 0]

\* The header comparison always reports a match.
MutCoseVerifyIgnoreAlg(report, sig_algo, key) ==
    [res |-> IF verify_signature(key, report.sigBy, report.sigOver,
                                 SigStructure(report.protected, report.payload))
             THEN "true" ELSE "false",
     checked |-> TRUE]

\* CoseSign1::verify_signature(sig_algo, key): "err" without an integer
\* algorithm entry, "false" when it differs from sig_algo, else the signature
\* check over the Sig_structure; `checked` records that the check was made.
CoseVerify(report, sig_algo, key) ==
    IF ~report.protected.hasAlg THEN [res |-> "err", checked |-> FALSE]
    ELSE IF ~report.protected.isInt THEN [res |-> "err", checked |-> FALSE]
    ELSE IF ~sig_algo_val(sig_algo).ok THEN [res |-> "err", checked |-> FALSE]
    ELSE IF report.protected.alg # sig_algo_val(sig_algo).val
         THEN [res |-> "false", checked |-> FALSE]
    ELSE [res |-> IF verify_signature(key, report.sigBy, report.sigOver,
                                      SigStructure(report.protected, report.payload))
                  THEN "true" ELSE "false",
          checked |-> TRUE]

CoseVerifySignature(report, sig_algo, key) == CoseVerify(report, sig_algo, key).res

\* AttestationReport::cert_chain: add_cert_by_der over cabundle, then certificate.
RECURSIVE BuildChain(_, _, _)
BuildChain(ders, i, chain) ==
    IF i > Len(ders) THEN chain
    ELSE IF ~parse_der(ders[i]) THEN [chain EXCEPT !.ok = FALSE]
    ELSE BuildChain(ders, i + 1,
            [ok |-> TRUE,
             certs |-> Append(chain.certs, ders[i]),
             path_digest |-> Append(chain.path_digest,
                                    NextPathDigest(chain.path_digest, ders[i]))])

cert_chain(report) ==
    BuildChain(Append(report.payload.cabundle, report.payload.certificate), 1,
               [ok |-> TRUE, certs |-> <<>>, path_digest |-> <<>>])

\* AttestationReport::authenticate(trusted_certs_len, timestamp): the chain,
\* or the first step that failed.
MutAuthenticateTimeFirst(report, n, t) ==
    LET chain == cert_chain(report)
    IN  IF ~chain.ok THEN [ok |-> FALSE, err |-> "cert", chain |-> chain]
        ELSE IF check_valid(chain.certs, t) # 0
             THEN [ok |-> FALSE, err |-> "time", chain |-> chain]
        ELSE IF verify_chain(chain.certs, n).res # "true"
             THEN [ok |-> FALSE, err |-> "chain", chain |-> chain]
        ELSE IF CoseVerifySignature(report, "EcdsaSHA384",
                    chain.certs[Len(chain.certs)].key) # "true"
             THEN [ok |-> FALSE, err |-> "cose", chain |-> chain]
        ELSE [ok |-> TRUE, err |-> "none", chain |-> chain]
MutAuthenticateNoCose(report, n, t) ==
    LET chain == cert_chain(report)
    IN  IF ~chain.ok THEN [ok |-> FALSE, err |-> "cert", chain |-> chain]
        ELSE IF verify_chain(chain.certs, n).res # "true"
             THEN [ok |-> FALSE, err |-> "chain", chain |-> chain]
        ELSE IF check_valid(chain.certs, t) # 0
             THEN [ok |-> FALSE, err |-> "time", chain |-> chain]
        ELSE [ok |-> TRUE, err |-> "none", chain |-> chain]
authenticate(report, n, t) ==
    LET chain == cert_chain(report)
    IN  IF ~chain.ok THEN [ok |-> FALSE, err |-> "cert", chain |-> chain]
        ELSE IF verify_chain(chain.certs, n).res # "true"
             THEN [ok |-> FALSE, err |-> "chain", chain |-> chain]
        ELSE IF check_valid(chain.certs, t) # 0
             THEN [ok |-> FALSE, err |-> "time", chain |-> chain]
        ELSE IF CoseVerifySignature(report, "EcdsaSHA384",
                    chain.certs[Len(chain.certs)].key) # "true"
             THEN [ok |-> FALSE, err |-> "cose", chain |-> chain]
        ELSE [ok |-> TRUE, err |-> "none", chain |-> chain]

(* --------------------------- Verifier guest ---------------------------- *)

\* ABI encoding of a struct, and bytes that decode as nothing.
abi_encode(x) == [abi |-> TRUE, val |-> x]
abi_decode_ok(bytes) == bytes.abi

NoInput == [timestamp |-> 0, trusted_certs_len |-> 0, attestation_report |-> BadReport]
JunkBytes == [abi |-> FALSE, val |-> NoInput]

NoJournal ==
    [verify_timestamp |-> 0, certs |-> <<>>, trusted_certs_len |-> 0,
     pcrs |-> <<>>, doc_timestamp |-> 0]

\* doc.pcrs.iter().filter(..).map(..).collect(): the BTreeMap walked in
\* ascending key order from key `from`, all-zero values dropped.
MutPcrListFirstOnly(pcrs, from) ==
    LET S == {i \in DOMAIN pcrs : pcrs[i] # ZeroPcr}
        F == {i \in S : Bytes48(pcrs[i]).first # Bytes48(ZeroPcr).first}
        Sorted(T) == CHOOSE q \in [1..Cardinality(T) -> T] :
                        \A a, b \in 1..Cardinality(T) : a < b => q[a] < q[b]
    IN  [k \in 1..Cardinality(F) |->
            [index |-> Sorted(F)[k], value |-> Bytes48(pcrs[Sorted(F)[k]])]]
RECURSIVE PcrList(_, _)
PcrList(pcrs, from) ==
    LET rest == {i \in DOMAIN pcrs : i >= from}
    IN  IF rest = {} THEN <<>>
        ELSE LET i == CHOOSE x \in rest : \A y \in rest : x <= y
                 tail == PcrList(pcrs, i + 1)
             IN  IF pcrs[i] # ZeroPcr
                 THEN <<[index |-> i, value |-> Bytes48(pcrs[i])]>> \o tail
                 ELSE tail
NoOutput == [ok |-> FALSE, err |-> "none", journal |-> NoJournal]

\* The time verify_attestation_report hands to authenticate.
VerifyTime(input) == input.timestamp

\* The VerifierJournal verify_attestation_report builds from an authenticated chain.
MutJournalUntrustedOnly(input, chain) ==
    [verify_timestamp |-> input.timestamp,
     certs |-> SubSeq(chain.path_digest, input.trusted_certs_len + 1,
                      Len(chain.path_digest)),
     trusted_certs_len |-> input.trusted_certs_len,
     pcrs |-> PcrList(input.attestation_report.payload.pcrs, 0),
     doc_timestamp |-> input.attestation_report.payload.timestamp]
MakeJournal(input, chain) ==
    [verify_timestamp |-> input.timestamp,
     certs |-> chain.path_digest,
     trusted_certs_len |-> input.trusted_certs_len,
     pcrs |-> PcrList(input.attestation_report.payload.pcrs, 0),
     doc_timestamp |-> input.attestation_report.payload.timestamp]

\* verify_attestation_report(input): Ok(journal) or the error.
verify_attestation_report(input) ==
    IF ~AttestationReportParse(input.attestation_report)
    THEN [ok |-> FALSE, err |-> "parse", journal |-> NoJournal]
    ELSE LET a == authenticate(input.attestation_report,
                               input.trusted_certs_len, VerifyTime(input))
         IN  IF ~a.ok THEN [ok |-> FALSE, err |-> a.err, journal |-> NoJournal]
             ELSE [ok |-> TRUE, err |-> "none", journal |-> MakeJournal(input, a.chain)]

\* The inputs the guest is run on.
GuestReports ==
    {BadReport} \cup
    {CoseReport(Doc(ts, ch), ChainKey(1, Len(ch)), v) :
        ts \in DocTimestamps, ch \in ReportChains, v \in CoseVariants}
GuestStdin ==
    {JunkBytes} \cup
    {abi_encode([timestamp |-> t, trusted_certs_len |-> n, attestation_report |-> r]) :
        t \in Times, n \in 0..(MaxChain + 1), r \in GuestReports}

\* main: read the input and decode it; unwrap() aborts the run.
GuestDecode ==
    /\ gpc = "start"
    /\ IF abi_decode_ok(stdin)
       THEN /\ ginput' = stdin.val
            /\ gpc' = "decoded"
       ELSE /\ gpc' = "aborted"
            /\ UNCHANGED ginput
    /\ UNCHANGED <<stdin, output, journal, authTime>>

\* main: verify_attestation_report(&input).unwrap().
GuestVerify ==
    /\ gpc = "decoded"
    /\ output' = verify_attestation_report(ginput)
    /\ authTime' = IF AttestationReportParse(ginput.attestation_report)
                   THEN Append(authTime, VerifyTime(ginput)) ELSE authTime
    /\ gpc' = IF output'.ok THEN "verified" ELSE "aborted"
    /\ UNCHANGED <<stdin, ginput, journal>>

\* main: commit_slice(&output.encode()).
GuestCommit ==
    /\ gpc = "verified"
    /\ journal' = Append(journal, abi_encode(output.journal))
    /\ gpc' = "done"
    /\ UNCHANGED <<stdin, ginput, output, authTime>>

(* --------------------------- verifier contract ------------------------- *)

\* The program identifiers this build of the prover carries (get_program_id).
LocalProgramId ==
    [verifier_id |-> "verifier", verifier_proof_id |-> "verifier_vk",
     aggregator_id |-> "aggregator"]

\* ZkCoProcessorConfig values a deployed contract can hold.
ZkConfigOf(pid) ==
    [verifierId |-> pid.verifier_id, verifierProofId |-> pid.verifier_proof_id,
     aggregatorId |-> pid.aggregator_id]
ZkConfigs ==
    {ZkConfigOf(LocalProgramId),
     ZkConfigOf([LocalProgramId EXCEPT !.aggregator_id = "aggregator_old"])}

\* ProgramId::verify(zk_config): TRUE for Ok(()).
MutProgramIdVerifierOnly(pid, zk_config) ==
    ~(\/ zk_config.verifierId # pid.verifier_id
      \/ zk_config.verifierProofId # pid.verifier_proof_id)
ProgramIdVerify(pid, zk_config) ==
    ~(\/ zk_config.aggregatorId # pid.aggregator_id
      \/ zk_config.verifierId # pid.verifier_id
      \/ zk_config.verifierProofId # pid.verifier_proof_id)

\* CertChain::digest of the chain built from a list of certificates.
ChainDigests(ders) ==
    BuildChain(ders, 1, [ok |-> TRUE, certs |-> <<>>, path_digest |-> <<>>]).path_digest

\* The contract's storage. The cache holds the path digests the contract has
\* accepted below the AWS root: positions 2..d of the honest chain.
NoContract ==
    [present |-> FALSE, rootCert |-> sha256(<<>>), trusted |-> {},
     zkConfig |-> ZkConfigOf(LocalProgramId), maxTimeDiff |-> 0, answers |-> "exact"]
ContractWith(d, zk, mtd) ==
    [present |-> TRUE,
     rootCert |-> ChainDigests(BaseChain(1, 1))[1],
     trusted |-> {ChainDigests(BaseChain(1, MaxChain))[i] : i \in 2..d},
     zkConfig |-> zk, maxTimeDiff |-> mtd, answers |-> "exact"]

\* A deployment whose cache query does not answer for every report (another
\* contract behind the address): its array is one entry short.
ShortAnswerContract(d, zk, mtd) == [ContractWith(d, zk, mtd) EXCEPT !.answers = "short"]

\* The longest certificate chain the cache query accepts.
MaxCertsPerReport == 8

\* checkTrustedIntermediateCerts, for one report: 0 when the first digest is
\* not rootCert, else the length of the longest leading run in the cache.
RECURSIVE TrustedRun(_, _, _)
TrustedRun(c, digests, i) ==
    IF i > Len(digests) \/ digests[i] \notin c.trusted THEN i - 1
    ELSE TrustedRun(c, digests, i + 1)
checkTrustedIntermediateCerts(c, report_certs) ==
    IF \E i \in 1..Len(report_certs) :
          Len(report_certs[i]) = 0 \/ Len(report_certs[i]) > MaxCertsPerReport
    THEN [ok |-> FALSE, val |-> <<>>]
    ELSE LET n == IF c.answers = "short" THEN Len(report_certs) - 1
                  ELSE Len(report_certs)
         IN  [ok |-> TRUE,
              val |-> [i \in 1..n |->
                          IF report_certs[i][1] # c.rootCert THEN 0
                          ELSE TrustedRun(c, report_certs[i], 2)]]

\* NitroEnclaveVerifierContract::batch_query_cert_cache: the answer and
\* whether the contract was called.
\* `sent` is the argument of the checkTrustedIntermediateCerts call, if made.
MutBatchQueryRootOnly(c, certs_digests) ==
    [ok |-> TRUE, called |-> FALSE, val |-> [i \in 1..Len(certs_digests) |-> 1],
     sent |-> <<>>]
MutBatchQueryUnchecked(c, certs_digests) ==
    IF Len(certs_digests) = 0
    THEN [ok |-> TRUE, called |-> FALSE, val |-> <<>>, sent |-> <<>>]
    ELSE LET r == checkTrustedIntermediateCerts(c, certs_digests)
         IN  [ok |-> r.ok, called |-> TRUE, val |-> r.val, sent |-> certs_digests]
\* The empty list is sent to the contract like any other.
MutBatchQueryEmptySent(c, certs_digests) ==
    IF \E i \in 1..Len(certs_digests) :
          Len(certs_digests[i]) = 0 \/ Len(certs_digests[i]) > MaxCertsPerReport
    THEN [ok |-> FALSE, called |-> FALSE, val |-> <<>>, sent |-> <<>>]
    ELSE LET r == checkTrustedIntermediateCerts(c, certs_digests)
         IN  [ok |-> r.ok, called |-> TRUE, val |-> r.val, sent |-> certs_digests]
batch_query_cert_cache(c, certs_digests) ==
    IF Len(certs_digests) = 0
    THEN [ok |-> TRUE, called |-> FALSE, val |-> <<>>, sent |-> <<>>]
    ELSE IF \E i \in 1..Len(certs_digests) :
               Len(certs_digests[i]) = 0 \/ Len(certs_digests[i]) > MaxCertsPerReport
         THEN [ok |-> FALSE, called |-> FALSE, val |-> <<>>, sent |-> <<>>]
    ELSE LET r == checkTrustedIntermediateCerts(c, certs_digests)
         IN  [ok |-> r.ok, called |-> TRUE, val |-> r.val, sent |-> certs_digests]

(* ------------------------------ the prover ----------------------------- *)

\* ProverConfig: the fields prepare_verifier_inputs reads.
DefaultCfg ==
    [default_trusted_certs_prefix_length |-> 1,
     skip_time_validity_check |-> FALSE,
     skip_contract_program_id_check |-> FALSE]

NoPrep == [ok |-> FALSE, err |-> "none", inputs |-> <<>>, calls |-> <<>>, answer |-> <<>>]

\* The reports older than max_time_diff at the time `now`.
MutStaleInclusive(reports, max_time_diff, now) ==
    {i \in 1..Len(reports) :
        (reports[i].payload.timestamp \div 1000) + max_time_diff <= now}
\* a + b on u64: the sum a release build computes, and whether it passed
\* the width, where a build with overflow checks panics.
AddU64(a, b) ==
    [val |-> (a + b) % TimestampSpace, overflow |-> a + b >= TimestampSpace]

\* The reports whose report_timestamp + max_time_diff passes the u64 width.
Overflowing(reports, max_time_diff) ==
    {i \in 1..Len(reports) :
        AddU64(reports[i].payload.timestamp \div 1000, max_time_diff).overflow}

Stale(reports, max_time_diff, now) ==
    {i \in 1..Len(reports) :
        AddU64(reports[i].payload.timestamp \div 1000, max_time_diff).val < now}

\* The reports paired with the configured default whatever the contract says.
MutPrepareDefaultPrefix(reports, cfg, c, now) ==
    IF \E i \in 1..Len(reports) :
          ~(AttestationReportParse(reports[i]) /\ cert_chain(reports[i]).ok)
    THEN [NoPrep EXCEPT !.err = "parse"]
    ELSE [ok |-> TRUE, err |-> "none",
          inputs |-> [i \in 1..Len(reports) |->
                        [trustedCertsPrefixLen |-> cfg.default_trusted_certs_prefix_length,
                         attestationReport |-> reports[i]]],
          calls |-> <<>>, answer |-> <<>>]

\* Only the first report is parsed ahead of the contract calls.
MutReportsParsedFirstOnly(reports) ==
    Len(reports) = 0
        \/ (AttestationReportParse(reports[1]) /\ cert_chain(reports[1]).ok)

\* The first loop of prepare_verifier_inputs: every report parses and its
\* certificate chain builds; the first failure returns.
ReportsParsed(reports) ==
    \A i \in 1..Len(reports) :
        AttestationReportParse(reports[i]) /\ cert_chain(reports[i]).ok

\* NitroEnclaveProver::prepare_verifier_inputs: Ok(inputs) or the step that
\* failed, with the contract calls made and the cache answer. The staleness
\* loop adds before it compares, report by report: a build with overflow
\* checks panics ("overflow") at the first sum that passes the width unless
\* an earlier report already failed the call as stale.
prepare_verifier_inputs(reports, cfg, c, now) ==
    LET N == Len(reports)
        parsed == ReportsParsed(reports)
        cert_digests == [i \in 1..N |-> cert_chain(reports[i]).path_digest]
        idOk == ProgramIdVerify(LocalProgramId, c.zkConfig)
        q == batch_query_cert_cache(c, cert_digests)
        max_time_diff == IF c.present THEN c.maxTimeDiff ELSE 3600 * 3
        lengths == IF c.present THEN q.val
                   ELSE [i \in 1..N |-> cfg.default_trusted_certs_prefix_length]
        panics == \E i \in Overflowing(reports, max_time_diff) :
                     \/ cfg.skip_time_validity_check
                     \/ \A j \in Stale(reports, max_time_diff, now) : i <= j
        calls0 == IF c.present THEN <<"zkConfig", "maxTimeDiff">> ELSE <<>>
        calls1 == IF c.present /\ q.called
                  THEN Append(calls0, "checkTrustedIntermediateCerts") ELSE calls0
    IN  IF ~parsed THEN [NoPrep EXCEPT !.err = "parse"]
        ELSE IF c.present /\ ~idOk /\ ~cfg.skip_contract_program_id_check
             THEN [NoPrep EXCEPT !.err = "program_id", !.calls = calls0]
        ELSE IF c.present /\ ~q.ok
             THEN [NoPrep EXCEPT !.err = "cache", !.calls = calls1]
        ELSE IF overflow_checks /\ panics
             THEN [NoPrep EXCEPT !.err = "overflow", !.calls = calls1, !.answer = lengths]
        ELSE IF Stale(reports, max_time_diff, now) # {}
                /\ ~cfg.skip_time_validity_check
             THEN [NoPrep EXCEPT !.err = "stale", !.calls = calls1, !.answer = lengths]
        ELSE IF Len(lengths) # N
             THEN [NoPrep EXCEPT !.err = "panic", !.calls = calls1, !.answer = lengths]
        ELSE [ok |-> TRUE, err |-> "none",
              inputs |-> [i \in 1..N |->
                            [trustedCertsPrefixLen |-> lengths[i],
                             attestationReport |-> reports[i]]],
              calls |-> calls1, answer |-> lengths]

\* The VerifierInput the guest decodes, from the host's input and the
\* verification time the command line settles on.
GuestInputOf(input, timestamp) ==
    [timestamp |-> timestamp,
     trusted_certs_len |-> input.trustedCertsPrefixLen,
     attestation_report |-> input.attestationReport]
DefaultTimestamp(input) == input.attestationReport.payload.timestamp \div 1000

\* One run of the Verifier guest's main on the given stdin: whether it
\* committed, and the journal bytes.
GuestMain(bytes) ==
    IF ~abi_decode_ok(bytes) THEN [ok |-> FALSE, journal |-> JunkBytes]
    ELSE LET out == verify_attestation_report(bytes.val)
         IN  IF out.ok THEN [ok |-> TRUE, journal |-> abi_encode(out.journal)]
             ELSE [ok |-> FALSE, journal |-> JunkBytes]

\* RawProof: the receipt for a run of `image` that committed `journal`.
RawProof(image, kind, bytes) ==
    [encoded_proof |-> [image |-> image, kind |-> kind, journal |-> bytes],
     journal |-> bytes]
NoProof == RawProof("none", "none", JunkBytes)

\* Program::gen_proof for the Verifier program.
VerifierGenProof(input, timestamp, kind) ==
    LET g == GuestMain(abi_encode(GuestInputOf(input, timestamp)))
    IN  [ok |-> g.ok,
         proof |-> IF g.ok THEN RawProof(LocalProgramId.verifier_proof_id, kind, g.journal)
                   ELSE NoProof]

\* The Aggregator guest's main: env::verify each output against the
\* assumptions, then commit the BatchVerifierJournal.
AggregatorMain(bytes, assumptions) ==
    IF ~abi_decode_ok(bytes) THEN [ok |-> FALSE, journal |-> JunkBytes]
    ELSE LET input == bytes.val
         IN  IF \A i \in 1..Len(input.outputs) :
                   \E a \in assumptions :
                      /\ a.image = input.verifierVk
                      /\ a.journal = abi_encode(input.outputs[i])
             THEN [ok |-> TRUE,
                   journal |-> abi_encode([verifierVk |-> input.verifierVk,
                                           outputs |-> input.outputs])]
             ELSE [ok |-> FALSE, journal |-> JunkBytes]

NoBatchInput == [verifierVk |-> "none", outputs |-> <<>>]

\* env::verify(verifierVk, output.encode()): some assumption binds the
\* verifier key to these journal bytes.
EnvVerify(receipts, vk, bytes) ==
    \E a \in receipts : a.image = vk /\ a.journal = bytes

\* Aggregator main: read the input and decode it; expect() aborts the run.
AggDecode ==
    /\ apc = "start"
    /\ IF abi_decode_ok(astdin)
       THEN /\ ainput' = astdin.val
            /\ apc' = "verifying"
       ELSE /\ apc' = "aborted"
            /\ UNCHANGED ainput
    /\ UNCHANGED <<astdin, areceipts, averified, ajournal>>

\* Aggregator main: one turn of the loop over input.outputs; unwrap()
\* aborts the run on the first output no assumption covers.
MutAggVerifyUnchecked ==
    /\ apc = "verifying"
    /\ averified < Len(ainput.outputs)
    /\ averified' = averified + 1
    /\ UNCHANGED <<astdin, areceipts, apc, ainput, ajournal>>
AggVerify ==
    /\ apc = "verifying"
    /\ averified < Len(ainput.outputs)
    /\ IF EnvVerify(areceipts, ainput.verifierVk,
                    abi_encode(ainput.outputs[averified + 1]))
       THEN /\ averified' = averified + 1
            /\ UNCHANGED apc
       ELSE /\ apc' = "aborted"
            /\ UNCHANGED averified
    /\ UNCHANGED <<astdin, areceipts, ainput, ajournal>>

\* Aggregator main: after the loop, commit_slice(&journal.encode()).
AggCommit ==
    /\ apc = "verifying"
    /\ averified = Len(ainput.outputs)
    /\ ajournal' = Append(ajournal,
                          abi_encode([verifierVk |-> ainput.verifierVk,
                                      outputs |-> ainput.outputs]))
    /\ apc' = "done"
    /\ UNCHANGED <<astdin, areceipts, ainput, averified>>

\* Idle values of the contract client's results.
NoQuery == [ok |-> FALSE, called |-> FALSE, val |-> <<>>, sent |-> <<>>]
NoVerify == [ok |-> FALSE, err |-> "none", calls |-> <<>>, kind |-> "none"]
NoAgg == [ok |-> FALSE, input |-> NoBatchInput, proof |-> NoProof, calls |-> <<>>]

\* One call of aggregator.gen_proof(input, kind, Some(assumptions)).
GenProofCall(kind, input, assumptions) ==
    [program |-> "aggregator", kind |-> kind, input |-> input, assumptions |-> assumptions]

\* NitroEnclaveProver::aggregate_proofs: the BatchVerifierInput it builds,
\* the gen_proof calls it makes and the Aggregator's proof.
MutAggregateReversed(ps) ==
    LET batch_input ==
            [verifierVk |-> LocalProgramId.verifier_proof_id,
             outputs |-> [i \in 1..Len(ps) |-> ps[Len(ps) + 1 - i].journal.val]]
        g == AggregatorMain(abi_encode(batch_input),
                            {ps[i].encoded_proof : i \in 1..Len(ps)})
    IN  [ok |-> g.ok, input |-> batch_input,
         proof |-> IF g.ok THEN RawProof(LocalProgramId.aggregator_id, "Groth16", g.journal)
                   ELSE NoProof,
         calls |-> <<GenProofCall("Groth16", batch_input,
                                  [i \in 1..Len(ps) |-> ps[i].encoded_proof])>>]
MutAggregateComposite(ps) ==
    LET batch_input ==
            [verifierVk |-> LocalProgramId.verifier_proof_id,
             outputs |-> [i \in 1..Len(ps) |-> ps[i].journal.val]]
        g == AggregatorMain(abi_encode(batch_input),
                            {ps[i].encoded_proof : i \in 1..Len(ps)})
    IN  [ok |-> g.ok, input |-> batch_input,
         proof |-> IF g.ok
                   THEN RawProof(LocalProgramId.aggregator_id, "Composite", g.journal)
                   ELSE NoProof,
         calls |-> <<GenProofCall("Composite", batch_input,
                                  [i \in 1..Len(ps) |-> ps[i].encoded_proof])>>]
aggregate_proofs(ps) ==
    IF \E i \in 1..Len(ps) : ~abi_decode_ok(ps[i].journal) THEN NoAgg
    ELSE LET batch_input ==
                 [verifierVk |-> LocalProgramId.verifier_proof_id,
                  outputs |-> [i \in 1..Len(ps) |-> ps[i].journal.val]]
             g == AggregatorMain(abi_encode(batch_input),
                                 {ps[i].encoded_proof : i \in 1..Len(ps)})
         IN  [ok |-> g.ok, input |-> batch_input,
              proof |-> IF g.ok
                        THEN RawProof(LocalProgramId.aggregator_id, "Groth16", g.journal)
                        ELSE NoProof,
              calls |-> <<GenProofCall("Groth16", batch_input,
                                       [i \in 1..Len(ps) |-> ps[i].encoded_proof])>>]

\* NitroEnclaveProver::create_onchain_proof.
\* Program::onchain_proof: the Groth16 seal, empty for any other receipt.
onchain_proof(raw_proof) ==
    IF raw_proof.encoded_proof.kind = "Groth16"
    THEN <<[seal |-> raw_proof.encoded_proof]>> ELSE <<>>

NoEnvelope ==
    [zktype |-> "RiscZero", proof_type |-> "none", program_id |-> LocalProgramId,
     raw_proof |-> NoProof, onchain_proof |-> <<>>]
create_onchain_proof(raw_proof, proof_type) ==
    [zktype |-> "RiscZero", proof_type |-> proof_type, program_id |-> LocalProgramId,
     raw_proof |-> raw_proof, onchain_proof |-> onchain_proof(raw_proof)]

\* The contract's verify / batchVerify as a view call: it accepts a seal of
\* the configured program over exactly the journal bytes passed as output.
ContractCall(c, call) ==
    /\ call.zkCoprocessor = "RiscZero"
    /\ Len(call.proofBytes) = 1
    /\ call.proofBytes[1].seal.journal = call.output
    /\ abi_decode_ok(call.output)
    /\ call.proofBytes[1].seal.image =
          IF call.method = "verify" THEN c.zkConfig.verifierProofId
          ELSE c.zkConfig.aggregatorId

\* NitroEnclaveVerifierContract::verify_proof: the calls made and Single,
\* Batch or the error.
VerifyCall(method, proof) ==
    [method |-> method, output |-> proof.raw_proof.journal,
     zkCoprocessor |-> proof.zktype, proofBytes |-> proof.onchain_proof]
MutVerifyProofAlwaysSingle(c, proof) ==
    IF Len(proof.onchain_proof) = 0
    THEN [NoVerify EXCEPT !.err = "no_onchain_proof"]
    ELSE LET call == VerifyCall("verify", proof)
         IN  IF ContractCall(c, call)
             THEN [ok |-> TRUE, err |-> "none", calls |-> <<call>>, kind |-> "Single"]
             ELSE [NoVerify EXCEPT !.err = "call", !.calls = <<call>>]
verify_proof(c, proof) ==
    IF Len(proof.onchain_proof) = 0
    THEN [NoVerify EXCEPT !.err = "no_onchain_proof"]
    ELSE LET call == VerifyCall(IF proof.proof_type = "Verifier" THEN "verify"
                                ELSE "batchVerify", proof)
         IN  IF ContractCall(c, call)
             THEN [ok |-> TRUE, err |-> "none", calls |-> <<call>>,
                   kind |-> IF proof.proof_type = "Verifier" THEN "Single" ELSE "Batch"]
             ELSE [NoVerify EXCEPT !.err = "call", !.calls = <<call>>]

\* How each method of the contract client reaches the node: through
\* NitroEnclaveVerifierContract::call or ::transact.  zk_config and
\* max_time_diff are view functions of the interface.
ViewTransport(method) == "call"
MutTransportVerifyTransacts(method) ==
    IF method \in {"verify", "batchVerify"} THEN "transact" ELSE "call"
Transport(method) ==
    CASE method = "verify" -> "call"
      [] method = "batchVerify" -> "call"
      [] method = "rootCert" -> "call"
      [] method = "checkTrustedIntermediateCerts" -> "call"
      [] method \in {"zkConfig", "maxTimeDiff"} -> ViewTransport(method)

\* The JSON-RPC request each helper issues, and whether the provider has to
\* sign for it.
JsonRpc(helper) == IF helper = "call" THEN "eth_call" ELSE "eth_sendTransaction"
NeedsSigner(rpc) == rpc = "eth_sendTransaction"

\* NitroEnclaveProver::verify_on_chain.
verify_on_chain(c, proof) ==
    IF ~c.present THEN [NoVerify EXCEPT !.err = "no_contract"]
    ELSE verify_proof(c, proof)

\* NitroEnclaveProver::prove_attestation_report, start to end: Ok(envelope)
\* or the failure of one of its three steps.
MutProveAloneNoContract(report, cfg, c, now) ==
    LET p == prepare_verifier_inputs(<<report>>, cfg, NoContract, now)
        r == VerifierGenProof(p.inputs[1], DefaultTimestamp(p.inputs[1]), "Groth16")
    IN  IF ~p.ok \/ ~r.ok THEN [ok |-> FALSE, envelope |-> NoEnvelope]
        ELSE [ok |-> TRUE, envelope |-> create_onchain_proof(r.proof, "Verifier")]
prove_attestation_report(report, cfg, c, now) ==
    LET p == prepare_verifier_inputs(<<report>>, cfg, c, now)
        r == VerifierGenProof(p.inputs[1], DefaultTimestamp(p.inputs[1]), "Groth16")
    IN  IF ~p.ok \/ ~r.ok THEN [ok |-> FALSE, envelope |-> NoEnvelope]
        ELSE [ok |-> TRUE, envelope |-> create_onchain_proof(r.proof, "Verifier")]

\* prepare_verifier_inputs, the first step of both proving entry points.
PrepareVerifierInputs ==
    /\ hpc = "start"
    /\ prep' = prepare_verifier_inputs(raw_reports, config, contract, current_time)
    /\ hpc' = IF prep'.ok THEN "prepared" ELSE "failed"
    /\ UNCHANGED <<contract, config, current_time, raw_reports,
                   env_concurrency, env_prefix_length, overflow_checks, max_concurrency,
                   tasks, proofs, agg, envelope>>

\* prove_attestation_report: verifier.gen_proof(&inputs[0], Groth16) starts
\* the Verifier guest on the encoded input.
ProveGenProof ==
    /\ hpc = "prepared"
    /\ \E timestamp \in Times \cup {DefaultTimestamp(prep.inputs[1])} :
          stdin' = abi_encode(GuestInputOf(prep.inputs[1], timestamp))
    /\ gpc' = "start"
    /\ hpc' = "proving"
    /\ UNCHANGED <<ginput, output, journal, authTime>>
    /\ UNCHANGED <<contract, config, current_time, raw_reports,
                   env_concurrency, env_prefix_length, overflow_checks, max_concurrency,
                   prep, tasks, proofs, agg, envelope>>

\* prove_attestation_report: the proof comes back and is wrapped, or the
\* guest's abort fails the call.
ProveFinish ==
    /\ hpc = "proving"
    /\ gpc \in {"done", "aborted"}
    /\ IF gpc = "done"
       THEN /\ envelope' = create_onchain_proof(
                              RawProof(LocalProgramId.verifier_proof_id, "Groth16",
                                       journal[1]), "Verifier")
            /\ hpc' = "done"
       ELSE /\ hpc' = "failed"
            /\ UNCHANGED envelope
    /\ UNCHANGED guestVars
    /\ UNCHANGED <<contract, config, current_time, raw_reports,
                   env_concurrency, env_prefix_length, overflow_checks, max_concurrency,
                   prep, tasks, proofs, agg>>

\* The default of PROVE_MAX_CONCURRENCY.
DefaultMaxConcurrency == 8

\* std::env::var(..).ok().and_then(|s| s.parse::<usize>().ok()).unwrap_or_else(|| 8):
\* the variable is unset, text that is no integer, or an integer.
EnvUnset == [kind |-> "unset", val |-> 0]
EnvText == [kind |-> "text", val |-> 0]
EnvInt(n) == [kind |-> "int", val |-> n]
MutParseDefaultOne(e) == IF e.kind = "int" /\ e.val >= 0 THEN e.val ELSE 1
ParseMaxConcurrency(e) ==
    IF e.kind = "int" /\ e.val >= 0 THEN e.val ELSE DefaultMaxConcurrency
EnvValues == {EnvUnset, EnvText, EnvInt(-1)} \cup {EnvInt(n) : n \in 0..MaxConcurrency}

\* gen_multi_composite_proofs: read the limit; parallels_blocking is handed
\* one task per input.
GenMultiStart ==
    /\ hpc = "prepared"
    /\ max_concurrency' = ParseMaxConcurrency(env_concurrency)
    /\ tasks' = [i \in 1..Len(prep.inputs) |->
                    [st |-> "pending", proof |-> NoProof, runs |-> 0]]
    /\ hpc' = "proving"
    /\ UNCHANGED <<contract, config, current_time, raw_reports,
                   env_concurrency, env_prefix_length, overflow_checks,
                   prep, proofs, agg, envelope>>

Running == {i \in 1..Len(tasks) : tasks[i].st = "running"}

\* parallels_blocking: a free worker takes a pending task.
WorkerStart(i) ==
    /\ hpc = "proving"
    /\ tasks[i].st = "pending"
    /\ Cardinality(Running) < max_concurrency
    /\ tasks' = [tasks EXCEPT ![i].st = "running", ![i].runs = @ + 1]
    /\ UNCHANGED <<contract, config, current_time, raw_reports,
                   env_concurrency, env_prefix_length, overflow_checks, max_concurrency,
                   prep, hpc, proofs, agg, envelope>>

\* parallels_blocking: a worker's gen_proof(input, Composite) returns; the
\* result is stored under the task's index.
WorkerFinish(i) ==
    /\ hpc = "proving"
    /\ tasks[i].st = "running"
    /\ \E backend_ok \in BOOLEAN :
          LET r == VerifierGenProof(prep.inputs[i], DefaultTimestamp(prep.inputs[i]),
                                    "Composite")
          IN  tasks' = [tasks EXCEPT ![i] =
                           IF r.ok /\ backend_ok
                           THEN [@ EXCEPT !.st = "ok", !.proof = r.proof]
                           ELSE [@ EXCEPT !.st = "err"]]
    /\ UNCHANGED <<contract, config, current_time, raw_reports,
                   env_concurrency, env_prefix_length, overflow_checks, max_concurrency,
                   prep, hpc, proofs, agg, envelope>>

\* parallels_blocking returns: the results in task order, or the failure.
MutCollectDropFailed ==
    /\ hpc = "proving"
    /\ \A i \in 1..Len(tasks) : tasks[i].st \in {"ok", "err"}
    /\ proofs' = LET okProofs == [i \in 1..Len(tasks) |-> tasks[i].proof]
                 IN  SelectSeq(okProofs, LAMBDA q : q # NoProof)
    /\ hpc' = "collected"
    /\ UNCHANGED <<contract, config, current_time, raw_reports,
                   env_concurrency, env_prefix_length, overflow_checks, max_concurrency,
                   prep, tasks, agg, envelope>>
Collect ==
    /\ hpc = "proving"
    /\ IF \E i \in 1..Len(tasks) : tasks[i].st = "err"
       THEN /\ hpc' = "failed"
            /\ UNCHANGED proofs
       ELSE /\ \A i \in 1..Len(tasks) : tasks[i].st = "ok"
            /\ proofs' = [i \in 1..Len(tasks) |-> tasks[i].proof]
            /\ hpc' = "collected"
    /\ UNCHANGED <<contract, config, current_time, raw_reports,
                   env_concurrency, env_prefix_length, overflow_checks, max_concurrency,
                   prep, tasks, agg, envelope>>

\* prove_multiple_reports: aggregate_proofs(proofs)?.
AggregateProofs ==
    /\ hpc = "collected"
    /\ agg' = aggregate_proofs(proofs)
    /\ hpc' = IF agg'.ok THEN "aggregated" ELSE "failed"
    /\ UNCHANGED <<contract, config, current_time, raw_reports,
                   env_concurrency, env_prefix_length, overflow_checks, max_concurrency,
                   prep, tasks, proofs, envelope>>

\* prove_multiple_reports: create_onchain_proof(result, Aggregator).
CreateOnchainProof ==
    /\ hpc = "aggregated"
    /\ envelope' = create_onchain_proof(agg.proof, "Aggregator")
    /\ hpc' = "done"
    /\ UNCHANGED <<contract, config, current_time, raw_reports,
                   env_concurrency, env_prefix_length, overflow_checks, max_concurrency,
                   prep, tasks, proofs, agg>>

\* verify_on_chain on the envelope a proving call returned.
VerifyProved ==
    /\ hpc = "done"
    /\ vret' = verify_on_chain(contract, envelope)
    /\ hpc' = "verified"
    /\ UNCHANGED <<contract, config, current_time, raw_reports, env_concurrency,
                   env_prefix_length, overflow_checks,
                   max_concurrency, prep, tasks, proofs, agg, envelope>>
    /\ UNCHANGED <<chainVars, guestVars, aggVars, qarg, qret>>

(* ------------------------------- specs --------------------------------- *)

vars == <<chainVars, guestVars, hostVars, restVars>>

IdleChain == certs = <<>> /\ path_digest = <<>> /\ ret = NoRet
IdleGuest ==
    /\ stdin = JunkBytes /\ gpc = "off" /\ ginput = NoInput
    /\ output = NoOutput /\ journal = <<>> /\ authTime = <<>>
IdleHost ==
    /\ contract = NoContract /\ config = DefaultCfg /\ current_time = 0
    /\ raw_reports = <<>> /\ env_concurrency = EnvUnset
    /\ env_prefix_length = EnvUnset /\ overflow_checks = FALSE /\ max_concurrency = 1
    /\ prep = NoPrep /\ hpc = "off" /\ tasks = <<>> /\ proofs = <<>>
    /\ agg = NoAgg /\ envelope = NoEnvelope

IdleAgg ==
    /\ astdin = JunkBytes /\ areceipts = {} /\ apc = "off"
    /\ ainput = NoBatchInput /\ averified = 0 /\ ajournal = <<>>
IdleClient == qarg = <<>> /\ qret = NoQuery /\ vret = NoVerify
IdleRest == IdleAgg /\ IdleClient

InitChain == IdleChain /\ IdleGuest /\ IdleHost /\ IdleRest

\* The digest pushed before the certificate is parsed.
MutAddCertDigestFirst ==
    /\ Len(certs) < MaxChain
    /\ \E buf \in DerInputs(Len(certs) + 1) :
          /\ path_digest' = Append(path_digest, NextPathDigest(path_digest, buf))
          /\ IF parse_der(buf)
             THEN /\ certs' = Append(certs, buf)
                  /\ ret' = [NoRet EXCEPT !.op = "add", !.res = "ok"]
             ELSE /\ UNCHANGED certs
                  /\ ret' = [NoRet EXCEPT !.op = "add", !.res = "err"]
    /\ UNCHANGED <<guestVars, hostVars, restVars>>
\* CertChain::add_cert_by_der on the chain built so far (parse and parse_rev
\* are loops of it); parse_der fails alike on bytes that are no certificate,
\* on trailing bytes and on an unsupported key algorithm.
add_cert_by_der ==
    /\ Len(certs) < MaxChain
    /\ \E buf \in DerInputs(Len(certs) + 1) :
          IF parse_der(buf)
          THEN /\ path_digest' = Append(path_digest, NextPathDigest(path_digest, buf))
               /\ certs' = Append(certs, buf)
               /\ ret' = [NoRet EXCEPT !.op = "add", !.res = "ok"]
          ELSE /\ UNCHANGED <<certs, path_digest>>
               /\ ret' = [NoRet EXCEPT !.op = "add", !.res = "err"]
    /\ UNCHANGED <<guestVars, hostVars, restVars>>

VerifyChainCall ==
    /\ \E n \in 0..(MaxChain + 1) :
        LET r == verify_chain(certs, n)
        IN  /\ ret' = [op |-> "verify_chain", arg |-> n,
                       res |-> r.res, checked |-> r.checked]
            /\ UNCHANGED <<certs, path_digest>>
    /\ UNCHANGED <<guestVars, hostVars, restVars>>

CheckValidCall ==
    /\ \E t \in Times \cup {MaxTime + 2, TimestampSpace - 1} :
        LET r == check_valid(certs, t)
        IN  /\ ret' = [op |-> "check_valid", arg |-> t,
                       res |-> IF r = 0 THEN "ok" ELSE "err", checked |-> {r}]
            /\ UNCHANGED <<certs, path_digest>>
    /\ UNCHANGED <<guestVars, hostVars, restVars>>

\* AttestationReport::authenticate on a parsed report: the chain it returns
\* is the one cert_chain() built from a new CertChain.
AuthenticateCall ==
    /\ certs = <<>>
    /\ \E r \in GuestReports \ {BadReport}, n \in 0..(MaxChain + 1), t \in Times :
        LET a == authenticate(r, n, t)
        IN  /\ certs' = IF a.ok THEN a.chain.certs ELSE <<>>
            /\ path_digest' = IF a.ok THEN a.chain.path_digest ELSE <<>>
            /\ ret' = [op |-> "authenticate", arg |-> n,
                       res |-> IF a.ok THEN "ok" ELSE "err", checked |-> {}]
    /\ UNCHANGED <<guestVars, hostVars, restVars>>

NextChain == add_cert_by_der \/ VerifyChainCall \/ CheckValidCall \/ AuthenticateCall

SpecChain == InitChain /\ [][NextChain]_vars

\* The Verifier guest, run on any input bytes.
InitGuest ==
    /\ IdleChain /\ IdleHost /\ IdleRest
    /\ stdin \in GuestStdin
    /\ gpc = "start" /\ ginput = NoInput
    /\ output = NoOutput /\ journal = <<>> /\ authTime = <<>>

NextGuest ==
    \/ GuestDecode /\ UNCHANGED <<chainVars, hostVars, restVars>>
    \/ GuestVerify /\ UNCHANGED <<chainVars, hostVars, restVars>>
    \/ GuestCommit /\ UNCHANGED <<chainVars, hostVars, restVars>>

SpecGuest == InitGuest /\ [][NextGuest]_vars

\* The Verifier guest on documents with every PCR map over three indices.
PcrMaps ==
    UNION {[D -> {ZeroPcr, <<0, 0, 1>>, <<1, 0, 0>>, <<0, 1, 1>>}] : D \in SUBSET (0..2)}
InitPcr ==
    /\ IdleChain /\ IdleHost /\ IdleRest
    /\ stdin \in
         {abi_encode([timestamp |-> 1, trusted_certs_len |-> 1,
                      attestation_report |->
                          CoseReport([Doc(1000, BaseChain(1, 2)) EXCEPT !.pcrs = m],
                                     ChainKey(1, 2), "ok")]) : m \in PcrMaps}
    /\ gpc = "start" /\ ginput = NoInput
    /\ output = NoOutput /\ journal = <<>> /\ authTime = <<>>

SpecPcr == InitPcr /\ [][NextGuest]_vars

(* ----------------- CoseSign1::verify_signature on its own ----------------- *)

\* The envelopes verify_signature is applied to: every header variant, signed
\* by the leaf key of a one- or two-certificate chain.
CoseInputs ==
    {CoseReport(Doc(1000, BaseChain(1, len)), ChainKey(1, len), v) :
        len \in 1..2, v \in CoseVariants}

\* One call of verify_signature(sig_algo, key) on the envelope at hand.
CoseVerifyCall ==
    /\ \E sig_algo \in SigAlgos, key \in Keys :
        LET r == CoseVerify(raw_reports[1], sig_algo, key)
        IN  ret' = [op |-> "verify_signature", arg |-> <<sig_algo, key>>,
                    res |-> r.res, checked |-> IF r.checked THEN {"sig"} ELSE {}]
    /\ UNCHANGED <<certs, path_digest, guestVars, hostVars, restVars>>

InitCose ==
    /\ IdleChain /\ IdleGuest /\ IdleRest
    /\ contract = NoContract /\ config = DefaultCfg /\ current_time = 0
    /\ raw_reports \in {<<r>> : r \in CoseInputs}
    /\ env_concurrency = EnvUnset
    /\ env_prefix_length = EnvUnset /\ overflow_checks = FALSE /\ max_concurrency = 1
    /\ prep = NoPrep /\ hpc = "off" /\ tasks = <<>> /\ proofs = <<>>
    /\ agg = NoAgg /\ envelope = NoEnvelope

SpecCose == InitCose /\ [][CoseVerifyCall]_vars

\* prove_attestation_report against a contract with a certificate cache.
CacheReports ==
    {BadReport} \cup
    {CoseReport(Doc(ts, ch), ChainKey(IF ch \in ForeignChains THEN 0 ELSE 1, Len(ch)), v) :
        ts \in {1000, 1000 * MaxTime}, ch \in ReportChains \cup ForeignChains,
        v \in {"ok", "forged"}}
CacheContracts == {ContractWith(d, zk, 1) : d \in 1..MaxChain, zk \in ZkConfigs}
CacheConfigs ==
    {[DefaultCfg EXCEPT !.skip_time_validity_check = st,
                        !.skip_contract_program_id_check = sp] :
        st \in BOOLEAN, sp \in BOOLEAN}

InitCache ==
    /\ IdleChain /\ IdleRest
    /\ stdin = JunkBytes /\ gpc = "off" /\ ginput = NoInput
    /\ output = NoOutput /\ journal = <<>> /\ authTime = <<>>
    /\ contract \in CacheContracts
    /\ config \in CacheConfigs
    /\ current_time \in {MaxTime, MaxTime + 2}
    /\ raw_reports \in {<<r>> : r \in CacheReports}
    /\ env_concurrency = EnvUnset
    /\ env_prefix_length = EnvUnset /\ overflow_checks = FALSE /\ max_concurrency = 1
    /\ prep = NoPrep /\ hpc = "start" /\ tasks = <<>> /\ proofs = <<>>
    /\ agg = NoAgg /\ envelope = NoEnvelope

NextCache ==
    \/ PrepareVerifierInputs /\ UNCHANGED <<chainVars, guestVars, restVars>>
    \/ ProveGenProof /\ UNCHANGED <<chainVars, restVars>>
    \/ GuestDecode /\ UNCHANGED <<chainVars, hostVars, restVars>>
    \/ GuestVerify /\ UNCHANGED <<chainVars, hostVars, restVars>>
    \/ GuestCommit /\ UNCHANGED <<chainVars, hostVars, restVars>>
    \/ ProveFinish /\ UNCHANGED <<chainVars, restVars>>

SpecCache == InitCache /\ [][NextCache]_vars

\* prove_multiple_reports over batches of reports.
BatchReports ==
    {CoseReport(Doc(999, BaseChain(1, 1)), ChainKey(1, 1), "ok"),
     CoseReport(Doc(1000, BaseChain(1, 2)), ChainKey(1, 2), "ok"),
     CoseReport(Doc(1000, BaseChain(1, 2)), ChainKey(1, 2), "forged"),
     BadReport}
RECURSIVE SeqsUpTo(_, _)
SeqsUpTo(S, n) ==
    IF n = 0 THEN {<<>>}
    ELSE LET shorter == SeqsUpTo(S, n - 1)
         IN  shorter \cup {Append(s, x) : s \in shorter, x \in S}

InitBatch ==
    /\ IdleChain /\ IdleGuest /\ IdleRest
    /\ contract \in {NoContract} \cup {ContractWith(2, zk, MaxTime) : zk \in ZkConfigs}
    /\ config = DefaultCfg
    /\ current_time = MaxTime
    /\ raw_reports \in SeqsUpTo(BatchReports, MaxBatch)
    /\ env_concurrency \in {EnvInt(1), EnvInt(MaxConcurrency)}
    /\ env_prefix_length = EnvUnset /\ overflow_checks = FALSE
    /\ max_concurrency = 1
    /\ prep = NoPrep /\ hpc = "start" /\ tasks = <<>> /\ proofs = <<>>
    /\ agg = NoAgg /\ envelope = NoEnvelope

NextBatch ==
    \/ PrepareVerifierInputs /\ UNCHANGED <<chainVars, guestVars, restVars>>
    \/ GenMultiStart /\ UNCHANGED <<chainVars, guestVars, restVars>>
    \/ \E i \in 1..Len(tasks) : WorkerStart(i) /\ UNCHANGED <<chainVars, guestVars, restVars>>
    \/ \E i \in 1..Len(tasks) : WorkerFinish(i) /\ UNCHANGED <<chainVars, guestVars, restVars>>
    \/ Collect /\ UNCHANGED <<chainVars, guestVars, restVars>>
    \/ AggregateProofs /\ UNCHANGED <<chainVars, guestVars, restVars>>
    \/ CreateOnchainProof /\ UNCHANGED <<chainVars, guestVars, restVars>>

SpecBatch == InitBatch /\ [][NextBatch]_vars

\* A whole session of the prover: prepare, prove one report or a batch,
\* then verify the envelope on chain.
SessionReports ==
    {CoseReport(Doc(999, BaseChain(1, 1)), ChainKey(1, 1), "ok"),
     CoseReport(Doc(1000, BaseChain(1, 2)), ChainKey(1, 2), "ok"),
     BadReport}
InitSession ==
    /\ IdleChain /\ IdleRest
    /\ stdin = JunkBytes /\ gpc = "off" /\ ginput = NoInput
    /\ output = NoOutput /\ journal = <<>> /\ authTime = <<>>
    /\ contract \in {NoContract} \cup {ContractWith(2, zk, MaxTime) : zk \in ZkConfigs}
    /\ config \in {DefaultCfg,
                   [DefaultCfg EXCEPT !.skip_contract_program_id_check = TRUE]}
    /\ current_time = MaxTime
    /\ raw_reports \in SeqsUpTo(SessionReports, MaxBatch)
    /\ env_concurrency = EnvInt(MaxConcurrency)
    /\ env_prefix_length = EnvUnset /\ overflow_checks = FALSE
    /\ max_concurrency = 1
    /\ prep = NoPrep /\ hpc = "start" /\ tasks = <<>> /\ proofs = <<>>
    /\ agg = NoAgg /\ envelope = NoEnvelope

NextSession ==
    \/ PrepareVerifierInputs /\ UNCHANGED <<chainVars, guestVars, restVars>>
    \/ Len(raw_reports) = 1 /\ ProveGenProof /\ UNCHANGED <<chainVars, restVars>>
    \/ GuestDecode /\ UNCHANGED <<chainVars, hostVars, restVars>>
    \/ GuestVerify /\ UNCHANGED <<chainVars, hostVars, restVars>>
    \/ GuestCommit /\ UNCHANGED <<chainVars, hostVars, restVars>>
    \/ ProveFinish /\ UNCHANGED <<chainVars, restVars>>
    \/ Len(raw_reports) # 1 /\ GenMultiStart /\ UNCHANGED <<chainVars, guestVars, restVars>>
    \/ \E i \in 1..Len(tasks) : WorkerStart(i) /\ UNCHANGED <<chainVars, guestVars, restVars>>
    \/ \E i \in 1..Len(tasks) : WorkerFinish(i) /\ UNCHANGED <<chainVars, guestVars, restVars>>
    \/ Collect /\ UNCHANGED <<chainVars, guestVars, restVars>>
    \/ AggregateProofs /\ UNCHANGED <<chainVars, guestVars, restVars>>
    \/ CreateOnchainProof /\ UNCHANGED <<chainVars, guestVars, restVars>>
    \/ VerifyProved

SpecSession == InitSession /\ [][NextSession]_vars

\* prepare_verifier_inputs under every configuration, with and without a
\* contract, on either side of the staleness limit.
AllZkConfigs ==
    ZkConfigs \cup
    {ZkConfigOf([LocalProgramId EXCEPT !.verifier_id = "verifier_old"]),
     ZkConfigOf([LocalProgramId EXCEPT !.verifier_proof_id = "verifier_vk_old"])}
PrepareReports ==
    {BadReport,
     CoseReport(Doc(999, BaseChain(1, 1)), ChainKey(1, 1), "ok"),
     CoseReport(Doc(1000, BaseChain(1, 2)), ChainKey(1, 2), "ok"),
     CoseReport(Doc(1000 * MaxTime, BaseChain(1, MaxChain)), ChainKey(1, MaxChain), "ok"),
     CoseReport(Doc(1000 * MaxTime, BaseChain(0, 2)), ChainKey(0, 2), "ok"),
     CoseReport(Doc(1000, [BaseChain(1, 2) EXCEPT ![2] = Tamper(@, "der")]),
                ChainKey(1, 2), "ok")}
PrepareContracts ==
    {NoContract,
     ContractWith(1, ZkConfigOf(LocalProgramId), 1),
     ShortAnswerContract(2, ZkConfigOf(LocalProgramId), 1)}
    \cup {ContractWith(MaxChain, zk, 1) : zk \in AllZkConfigs}
PrepareConfigs ==
    {[default_trusted_certs_prefix_length |-> n,
      skip_time_validity_check |-> st,
      skip_contract_program_id_check |-> sp] :
        n \in {0, 1}, st \in BOOLEAN, sp \in BOOLEAN}

InitPrepare ==
    /\ IdleChain /\ IdleGuest /\ IdleRest
    /\ contract \in PrepareContracts
    /\ config \in PrepareConfigs
    /\ current_time \in {MaxTime + 1, 3600 * 3 + 1}
    /\ raw_reports \in SeqsUpTo(PrepareReports, MaxBatch)
    /\ env_concurrency = EnvUnset
    /\ env_prefix_length = EnvUnset /\ overflow_checks = FALSE /\ max_concurrency = 1
    /\ prep = NoPrep /\ hpc = "start" /\ tasks = <<>> /\ proofs = <<>>
    /\ agg = NoAgg /\ envelope = NoEnvelope

NextPrepare == PrepareVerifierInputs /\ UNCHANGED <<chainVars, guestVars, restVars>>

SpecPrepare == InitPrepare /\ [][NextPrepare]_vars

(* ------------------------- ProverConfig constructors ---------------------- *)

\* The largest u8.
U8Max == 255

\* Values of DEFAULT_TRUSTED_CERTS_PREFIX_LENGTH.
PrefixEnvValues ==
    {EnvUnset, EnvText} \cup {EnvInt(n) : n \in {-1, 0, 1, 8, 9, U8Max, U8Max + 1}}

\* The default holds only values in 0..8.
MutPrefixLengthUpTo8(e) == IF e.kind = "int" /\ e.val \in 0..8 THEN e.val ELSE 1

\* ProverConfig::default_trusted_certs_prefix_length: the variable parsed as
\* a u8, and 1 when it is unset or does not parse.
default_trusted_certs_prefix_length(e) ==
    IF e.kind = "int" /\ e.val \in 0..U8Max THEN e.val ELSE 1

\* ProverConfig::risc0, sp1, risc0_with, sp1_with: they differ only in the
\* `system` field, which the model leaves out. The two flags are parsed from
\* their own variables.
ProverConfigNew ==
    /\ hpc = "off"
    /\ \E st \in BOOLEAN, sp \in BOOLEAN :
         config' = [default_trusted_certs_prefix_length |->
                        default_trusted_certs_prefix_length(env_prefix_length),
                    skip_time_validity_check |-> st,
                    skip_contract_program_id_check |-> sp]
    /\ hpc' = "start"
    /\ UNCHANGED <<contract, current_time, raw_reports, env_concurrency,
                   env_prefix_length, overflow_checks, max_concurrency,
                   prep, tasks, proofs,
                   agg, envelope>>

ConfigReports ==
    {CoseReport(Doc(1000, BaseChain(1, 1)), ChainKey(1, 1), "ok"),
     CoseReport(Doc(1000, BaseChain(1, 2)), ChainKey(1, 2), "ok")}

InitConfig ==
    /\ IdleChain /\ IdleGuest /\ IdleRest
    /\ contract \in {NoContract, ContractWith(1, ZkConfigOf(LocalProgramId), 1)}
    /\ config = DefaultCfg
    /\ current_time = 1
    /\ raw_reports \in SeqsUpTo(ConfigReports, MaxBatch)
    /\ env_concurrency = EnvUnset
    /\ env_prefix_length \in PrefixEnvValues /\ overflow_checks = FALSE
    /\ max_concurrency = 1
    /\ prep = NoPrep /\ hpc = "off" /\ tasks = <<>> /\ proofs = <<>>
    /\ agg = NoAgg /\ envelope = NoEnvelope

NextConfig ==
    (ProverConfigNew \/ PrepareVerifierInputs)
        /\ UNCHANGED <<chainVars, guestVars, restVars>>

SpecConfig == InitConfig /\ [][NextConfig]_vars

(* ------------------- the staleness test at the u64 width ------------------ *)

\* Reports signed at the epoch, at MaxTime seconds, and at the last
\* millisecond a u64 holds.
StaleReports ==
    {CoseReport(Doc(ts, BaseChain(1, 1)), ChainKey(1, 1), "ok") :
        ts \in {0, 1000 * MaxTime, TimestampSpace - 1}}

\* Contracts whose maxTimeDiff ranges up to the largest uint64.
StaleContracts ==
    {NoContract} \cup
    {ContractWith(1, ZkConfigOf(LocalProgramId), mtd) :
        mtd \in {0, MaxTime, TimestampSpace - 1 - MaxTime, TimestampSpace - 1}}

InitStale ==
    /\ IdleChain /\ IdleGuest /\ IdleRest
    /\ contract \in StaleContracts
    /\ config \in {DefaultCfg, [DefaultCfg EXCEPT !.skip_time_validity_check = TRUE]}
    /\ current_time \in {0, MaxTime + 1, 3600 * 3 + 1, TimestampSpace - 1}
    /\ raw_reports \in SeqsUpTo(StaleReports, MaxBatch)
    /\ env_concurrency = EnvUnset /\ env_prefix_length = EnvUnset
    /\ overflow_checks \in BOOLEAN /\ max_concurrency = 1
    /\ prep = NoPrep /\ hpc = "start" /\ tasks = <<>> /\ proofs = <<>>
    /\ agg = NoAgg /\ envelope = NoEnvelope

SpecStale == InitStale /\ [][NextPrepare]_vars

\* batch_query_cert_cache called directly with digest chains of 0, 1, 2, 8
\* and 9 entries.
BatchQueryCertCache ==
    /\ hpc = "start"
    /\ qret' = batch_query_cert_cache(contract, qarg)
    /\ hpc' = "queried"
    /\ UNCHANGED <<contract, config, current_time, raw_reports, env_concurrency,
                   env_prefix_length, overflow_checks,
                   max_concurrency, prep, tasks, proofs, agg, envelope>>
    /\ UNCHANGED <<chainVars, guestVars, aggVars, qarg, vret>>

QueryChains ==
    {<<>>} \cup {ChainDigests(BaseChain(1, n)) : n \in {1, 2, 8, 9}}
           \cup {ChainDigests(BaseChain(0, 2))}
InitQuery ==
    /\ IdleChain /\ IdleGuest /\ IdleAgg
    /\ contract \in {ContractWith(d, ZkConfigOf(LocalProgramId), 1) : d \in {1, MaxChain}}
    /\ config = DefaultCfg /\ current_time = 0 /\ raw_reports = <<>>
    /\ env_concurrency = EnvUnset
    /\ env_prefix_length = EnvUnset /\ overflow_checks = FALSE /\ max_concurrency = 1
    /\ prep = NoPrep /\ hpc = "start" /\ tasks = <<>> /\ proofs = <<>>
    /\ agg = NoAgg /\ envelope = NoEnvelope
    /\ qarg \in SeqsUpTo(QueryChains, MaxBatch)
    /\ qret = NoQuery /\ vret = NoVerify

NextQuery == BatchQueryCertCache

SpecQuery == InitQuery /\ [][NextQuery]_vars

\* prove_multiple_reports without a contract, under every setting of
\* PROVE_MAX_CONCURRENCY.
FanOutReports ==
    {CoseReport(Doc(1000, BaseChain(1, 2)), ChainKey(1, 2), v) : v \in {"ok", "forged"}}

InitFanOut ==
    /\ IdleChain /\ IdleGuest /\ IdleRest
    /\ contract = NoContract
    /\ config = DefaultCfg
    /\ current_time = MaxTime
    /\ raw_reports \in SeqsUpTo(FanOutReports, MaxBatch)
    /\ env_concurrency \in EnvValues
    /\ env_prefix_length = EnvUnset /\ overflow_checks = FALSE
    /\ max_concurrency = 1
    /\ prep = NoPrep /\ hpc = "start" /\ tasks = <<>> /\ proofs = <<>>
    /\ agg = NoAgg /\ envelope = NoEnvelope

SpecFanOut == InitFanOut /\ [][NextBatch]_vars

\* The Aggregator guest, run on any input bytes with any assumptions.
AggJournals ==
    {GuestMain(abi_encode(GuestInputOf(
         [trustedCertsPrefixLen |-> 1, attestationReport |-> r],
         r.payload.timestamp \div 1000))).journal.val :
       r \in {CoseReport(Doc(999, BaseChain(1, 1)), ChainKey(1, 1), "ok"),
              CoseReport(Doc(1000, BaseChain(1, 2)), ChainKey(1, 2), "ok")}}
AggKeys == {LocalProgramId.verifier_proof_id, "other_vk"}
AggReceipts ==
    {RawProof(vk, "Composite", abi_encode(j)).encoded_proof :
        vk \in AggKeys, j \in AggJournals}
AggStdin ==
    {JunkBytes} \cup
    {abi_encode([verifierVk |-> vk, outputs |-> os]) :
        vk \in AggKeys, os \in SeqsUpTo(AggJournals, MaxBatch)}

InitAggregator ==
    /\ IdleChain /\ IdleGuest /\ IdleHost /\ IdleClient
    /\ astdin \in AggStdin
    /\ areceipts \in SUBSET AggReceipts
    /\ apc = "start" /\ ainput = NoBatchInput /\ averified = 0 /\ ajournal = <<>>

NextAggregator ==
    \/ AggDecode /\ UNCHANGED <<chainVars, guestVars, hostVars, clientVars>>
    \/ AggVerify /\ UNCHANGED <<chainVars, guestVars, hostVars, clientVars>>
    \/ AggCommit /\ UNCHANGED <<chainVars, guestVars, hostVars, clientVars>>

SpecAggregator == InitAggregator /\ [][NextAggregator]_vars

\* aggregate_proofs, called on any list of proofs.
AggregateProofsIn ==
    {RawProof(LocalProgramId.verifier_proof_id, "Composite", abi_encode(j)) :
        j \in AggJournals}
    \cup {RawProof("other_vk", "Composite",
                   abi_encode(CHOOSE j \in AggJournals : TRUE)),
          RawProof(LocalProgramId.verifier_proof_id, "Composite", JunkBytes)}

InitAggregate ==
    /\ IdleChain /\ IdleGuest /\ IdleRest
    /\ contract = NoContract /\ config = DefaultCfg /\ current_time = 0
    /\ raw_reports = <<>> /\ env_concurrency = EnvUnset
    /\ env_prefix_length = EnvUnset /\ overflow_checks = FALSE /\ max_concurrency = 1
    /\ prep = NoPrep /\ tasks = <<>>
    /\ proofs \in SeqsUpTo(AggregateProofsIn, MaxBatch)
    /\ hpc = "collected"
    /\ agg = NoAgg /\ envelope = NoEnvelope

NextAggregate ==
    \/ AggregateProofs /\ UNCHANGED <<chainVars, guestVars, restVars>>
    \/ CreateOnchainProof /\ UNCHANGED <<chainVars, guestVars, restVars>>

SpecAggregate == InitAggregate /\ [][NextAggregate]_vars

\* verify_on_chain on envelopes of both proof types, of Groth16 and
\* Composite receipts, of either backend, with and without a contract.
VerifyOnChain ==
    /\ hpc = "start"
    /\ vret' = verify_on_chain(contract, envelope)
    /\ hpc' = "verified"
    /\ UNCHANGED <<contract, config, current_time, raw_reports, env_concurrency,
                   env_prefix_length, overflow_checks,
                   max_concurrency, prep, tasks, proofs, agg, envelope>>
    /\ UNCHANGED <<chainVars, guestVars, aggVars, qarg, qret>>

EnvelopeJournals ==
    {JunkBytes} \cup {abi_encode(j) : j \in AggJournals}
                \cup {abi_encode([verifierVk |-> LocalProgramId.verifier_proof_id,
                                  outputs |-> os]) : os \in SeqsUpTo(AggJournals, 2)}
Envelopes ==
    {[create_onchain_proof(RawProof(image, kind, j), pt) EXCEPT !.zktype = zk] :
        image \in {LocalProgramId.verifier_proof_id, LocalProgramId.aggregator_id},
        kind \in {"Groth16", "Composite"},
        j \in EnvelopeJournals,
        pt \in {"Verifier", "Aggregator"},
        zk \in {"RiscZero", "Succinct"}}
InitVerify ==
    /\ IdleChain /\ IdleGuest /\ IdleRest
    /\ contract \in {NoContract} \cup {ContractWith(2, zk, 1) : zk \in ZkConfigs}
    /\ config = DefaultCfg /\ current_time = 0 /\ raw_reports = <<>>
    /\ env_concurrency = EnvUnset
    /\ env_prefix_length = EnvUnset /\ overflow_checks = FALSE /\ max_concurrency = 1
    /\ prep = NoPrep /\ hpc = "start" /\ tasks = <<>> /\ proofs = <<>>
    /\ agg = NoAgg
    /\ envelope \in Envelopes

NextVerify == VerifyOnChain

SpecVerify == InitVerify /\ [][NextVerify]_vars

(* ------------------------ claims on the chain -------------------------- *)

\* The issuer of the i-th certificate of cs (1-based): its predecessor, or
\* the certificate itself for the root.
IssuerOf(cs, i) == IF i = 1 THEN cs[1] ELSE cs[i - 1]

\* The signature of cs[i] verifies under the public key of its issuer.
LinkVerifies(cs, i) ==
    /\ cs[i].sigEnc
    /\ cs[i].sigBy = IssuerOf(cs, i).key
    /\ cs[i].sigOver = tbs_certificate(cs[i])

\* The links above the trusted prefix n that do not verify.
BadLinks(cs, n) == {i \in (n + 1)..Len(cs) : ~LinkVerifies(cs, i)}
FirstBadLink(cs, n) == CHOOSE i \in BadLinks(cs, n) : \A j \in BadLinks(cs, n) : i <= j

\* C3: for 0 <= n <= certs.len(), verify_chain(n) returns true iff every link
\* i in n..certs.len() verifies under the key of certs[i-1] (its own key for
\* i = 0); otherwise it stops at the first link that does not verify, with
\* false on a mismatch (an error on a malformed signature), and it never
\* checks a link below n.
C3_VerifyChainLinks ==
    (ret.op = "verify_chain" /\ ret.arg <= Len(certs)) =>
        LET n == ret.arg
            bad == BadLinks(certs, n)
        IN  /\ (ret.res = "true") <=> (bad = {})
            /\ bad = {} => ret.checked = (n + 1)..Len(certs)
            /\ bad # {} =>
                  LET f == FirstBadLink(certs, n)
                  IN  /\ ret.checked = (n + 1)..f
                      /\ ret.res = IF certs[f].sigEnc THEN "false" ELSE "err"
            /\ ret.checked \cap 1..n = {}

\* C3 witness: verify_chain(1) on a chain of three whose root does not verify
\* (skipped), whose second link verifies and whose third does not.
C3_Witness ==
    /\ ret.op = "verify_chain" /\ ret.arg = 1 /\ Len(certs) = 3
    /\ ~LinkVerifies(certs, 1) /\ LinkVerifies(certs, 2) /\ ~LinkVerifies(certs, 3)
    /\ ret.res = "false" /\ ret.checked = {2, 3}

\* The bytes of c are not those of any certificate as it was issued: its
\* signature is not a signature over its own TBS bytes.
Tampered(c) == ~c.sigEnc \/ c.sigOver # tbs_certificate(c)

\* C4 (as claimed): for n in 1..=L, if a certificate of the skipped prefix
\* certs[0..n) has been tampered with, verify_chain(n) returns false.
C4_Original ==
    (/\ ret.op = "verify_chain"
     /\ ret.arg \in 1..Len(certs)
     /\ \E j \in 1..ret.arg : Tampered(certs[j])) => ret.res = "false"

\* C4 (amended): if the certificate at 0-based index j has been tampered with,
\* verify_chain(n) does not return true for any n <= j, that is whenever the
\* tampered certificate's own link is among those checked; a tampered
\* certificate below n is among the links that are never checked.
C4_TamperDetectedWhenChecked ==
    ret.op = "verify_chain" =>
        \A j \in 1..Len(certs) :
            Tampered(certs[j]) =>
                /\ ret.arg <= j - 1 => ret.res \in {"false", "err"}
                /\ ret.arg > j - 1 => j \notin ret.checked

\* C4 witness: a tampered intermediate and verify_chain(1), which checks it.
C4_Witness ==
    /\ ret.op = "verify_chain" /\ ret.arg = 1 /\ Len(certs) = 3
    /\ ~Tampered(certs[1]) /\ Tampered(certs[2])
    /\ ret.res = "false"

\* Self-signed root, every certificate signed by its predecessor's key.
ValidChain(cs) ==
    \A i \in 1..Len(cs) :
        cs[i] = Issue(IssuerOf(cs, i).key, cs[i].key, <<cs[i].nb, cs[i].na>>)

\* C5: on a valid chain of length L, verify_chain(n) returns true for every
\* n in 0..=L, including n = L where no link is checked.
C5_ValidChainAnyPrefix ==
    (ret.op = "verify_chain" /\ ret.arg <= Len(certs) /\ ValidChain(certs)) =>
        ret.res = "true"

\* C5 witness: a valid chain of three and verify_chain(3), which checks nothing.
C5_Witness ==
    /\ ret.op = "verify_chain" /\ Len(certs) = 3 /\ ret.arg = 3
    /\ ValidChain(certs) /\ ret.res = "true" /\ ret.checked = {}

\* The path digest of the last certificate of cs, from the DER bytes of cs alone.
RECURSIVE PathDigestOf(_)
PathDigestOf(cs) ==
    IF Len(cs) = 1 THEN sha256(<<cs[1]>>)
    ELSE sha256(<<PathDigestOf(SubSeq(cs, 1, Len(cs) - 1)), sha256(<<cs[Len(cs)]>>)>>)

\* C7: after any sequence of successful add_cert_by_der calls,
\* path_digest[0] = SHA-256(certs[0].der) and, for i >= 1,
\* path_digest[i] = SHA-256(path_digest[i-1] || SHA-256(certs[i].der)); so
\* path_digest[i] is a function of the DER bytes of certs[0..=i] alone.
C7_PathDigestRule ==
    /\ Len(path_digest) = Len(certs)
    /\ \A i \in 1..Len(certs) :
          /\ path_digest[i] = IF i = 1 THEN sha256(<<certs[1]>>)
                              ELSE sha256(<<path_digest[i - 1], sha256(<<certs[i]>>)>>)
          /\ path_digest[i] = PathDigestOf(SubSeq(certs, 1, i))

\* C7 witness: three certificates added, the last add successful.
C7_Witness ==
    /\ ret.op = "add" /\ ret.res = "ok" /\ Len(certs) = 3
    /\ certs[1] # certs[2] /\ certs[2] # certs[3]

(* ---------------------- claims on the Verifier guest ------------------- *)

\* The DER certificates of a report, root first, leaf last.
ReportDers(report) == Append(report.payload.cabundle, report.payload.certificate)

\* The COSE signature of the report is an ES384 signature by `key` over the
\* Sig_structure of its protected header and payload.
CoseSignedBy(report, key) ==
    /\ report.protected.hasAlg /\ report.protected.isInt
    /\ report.protected.alg = ES384
    /\ report.sigBy = key
    /\ report.sigOver = SigStructure(report.protected, report.payload)

\* Every stage of the pipeline passes on the bytes b: they decode as a
\* VerifierInput, the report parses, every certificate parses, every link
\* from the trusted prefix on verifies, every certificate is valid at the
\* verification time, and the COSE signature verifies under the leaf key.
PipelinePasses(b) ==
    /\ b.abi
    /\ b.val.attestation_report.cbor
    /\ LET r == b.val.attestation_report
           ders == ReportDers(r)
           n == b.val.trusted_certs_len
       IN  /\ \A i \in 1..Len(ders) : ders[i].wf
           /\ n <= Len(ders)
           /\ \A i \in (n + 1)..Len(ders) : LinkVerifies(ders, i)
           /\ \A i \in 1..Len(ders) :
                 ders[i].nb <= b.val.timestamp /\ b.val.timestamp <= ders[i].na
           /\ CoseSignedBy(r, ders[Len(ders)].key)

\* C1: the Verifier guest commits a journal iff the whole pipeline passes
\* (input decode, report parse, chain signatures from the trusted prefix,
\* time validity of every certificate, COSE signature); on any failure the
\* run aborts and nothing, partial or otherwise, is ever committed.
C1_JournalIffPipelinePasses ==
    /\ journal # <<>> =>
          /\ PipelinePasses(stdin)
          /\ gpc = "done"
          /\ journal = <<abi_encode(output.journal)>>
    /\ gpc = "aborted" => journal = <<>> /\ ~PipelinePasses(stdin)
    /\ gpc \in {"done", "aborted"} => ((journal # <<>>) <=> PipelinePasses(stdin))
    /\ gpc \in {"start", "decoded", "verified", "done", "aborted"}
    /\ (gpc = "verified") => PipelinePasses(stdin)

\* C1 witness: a run that committed, on a chain of three with the root trusted.
C1_Witness ==
    /\ gpc = "done" /\ journal # <<>>
    /\ stdin.val.trusted_certs_len = 1
    /\ Len(ReportDers(stdin.val.attestation_report)) = 3

\* C2: authenticate(n, t) returns the chain iff, in this order,
\* verify_chain(n) returns true, check_valid(t) succeeds on the whole chain,
\* and the COSE signature verifies under the leaf key with ES384; it stops
\* at the first step that fails, so a chain failure is reported before a
\* time failure and a time failure before a COSE failure.
C2_AuthenticateOrder ==
    (/\ gpc \in {"verified", "aborted", "done"}
     /\ abi_decode_ok(stdin)
     /\ AttestationReportParse(ginput.attestation_report)) =>
        LET r == ginput.attestation_report
            chain == cert_chain(r)
            n == ginput.trusted_certs_len
            t == authTime[1]
            chainOk == chain.ok /\ verify_chain(chain.certs, n).res = "true"
            timeOk == check_valid(chain.certs, t) = 0
            coseOk == CoseVerifySignature(r, "EcdsaSHA384", chain.certs[Len(chain.certs)].key) = "true"
        IN  /\ Len(authTime) = 1
            /\ output.ok <=> (chainOk /\ timeOk /\ coseOk)
            /\ output.ok => output.journal.certs = chain.path_digest
            /\ (chain.ok /\ ~chainOk) => output.err = "chain"
            /\ (chainOk /\ ~timeOk) => output.err = "time"
            /\ (chainOk /\ timeOk /\ ~coseOk) => output.err = "cose"
            /\ ~chain.ok => output.err = "cert"

\* C2 witness: the links verify, a certificate is out of its window and the
\* COSE signature is forged: the time failure is the one reported.
C2_Witness ==
    /\ gpc = "aborted" /\ abi_decode_ok(stdin) /\ output.err = "time"
    /\ ginput.attestation_report.sigBy = 0
    /\ Len(ReportDers(ginput.attestation_report)) = 3

\* C8: every committed journal carries the input's trusted prefix length
\* unchanged and, in certs, the complete root-to-leaf path-digest list of the
\* report's chain, |cabundle| + 1 entries, the skipped prefix included.
C8_JournalEchoesPrefixAndDigests ==
    \A k \in 1..Len(journal) :
        LET j == journal[k].val
            r == stdin.val.attestation_report
            ders == ReportDers(r)
        IN  /\ journal[k].abi
            /\ j.trusted_certs_len = stdin.val.trusted_certs_len
            /\ Len(j.certs) = Len(r.payload.cabundle) + 1
            /\ \A i \in 1..Len(ders) : j.certs[i] = PathDigestOf(SubSeq(ders, 1, i))

\* C8 witness: a journal committed with two of three certificates trusted.
C8_Witness ==
    /\ journal # <<>>
    /\ journal[1].val.trusted_certs_len = 2
    /\ Len(journal[1].val.certs) = 3

\* C9 (as claimed): the guest authenticates at the report's own
\* doc.timestamp / 1000, whatever the input.
C9_Original ==
    gpc = "done" =>
        authTime = <<ginput.attestation_report.payload.timestamp \div 1000>>

(* -------------------- claims on the certificate cache ------------------ *)

\* The leading k path digests match the contract's cache: position 1 is
\* rootCert and positions 2..k are trusted entries.
LeadingMatch(c, digs, k) ==
    /\ k <= Len(digs)
    /\ \A i \in 1..k : IF i = 1 THEN digs[1] = c.rootCert ELSE digs[i] \in c.trusted

\* A proving call whose preparation succeeded and whose guest run has ended.
CacheRunEnded == prep.ok /\ gpc \in {"done", "aborted"}

\* C6 (as claimed): with the prefix k the contract reported, the guest run
\* succeeds iff the leading k path digests match the cache.
C6_Original ==
    CacheRunEnded =>
        LET k == prep.inputs[1].trustedCertsPrefixLen
            digs == ChainDigests(ReportDers(raw_reports[1]))
        IN  (gpc = "done") <=> LeadingMatch(contract, digs, k)

\* C6: when the contract reports prefix k for a report's chain, the leading
\* k path digests match the cache (position 0 being rootCert), k is 0 exactly
\* on a root mismatch and otherwise the longest such run; the guest run with
\* that k succeeds iff every link from k on verifies, every certificate is
\* valid at the verification time and the COSE signature verifies; and a
\* committed journal echoes k and those k digests.
C6_CachePrefixSemantics ==
    CacheRunEnded =>
        LET r == raw_reports[1]
            ders == ReportDers(r)
            digs == ChainDigests(ders)
            k == prep.inputs[1].trustedCertsPrefixLen
            t == ginput.timestamp
        IN  /\ prep.answer = <<k>>
            /\ ginput.trusted_certs_len = k
            /\ ginput.attestation_report = r
            /\ LeadingMatch(contract, digs, k)
            /\ (k = 0) <=> (digs[1] # contract.rootCert)
            /\ (k >= 1 /\ k < Len(digs)) => digs[k + 1] \notin contract.trusted
            /\ (gpc = "done") <=>
                  /\ \A i \in (k + 1)..Len(ders) : LinkVerifies(ders, i)
                  /\ \A i \in 1..Len(ders) : ders[i].nb <= t /\ t <= ders[i].na
                  /\ CoseSignedBy(r, ders[Len(ders)].key)
            /\ (gpc = "done") =>
                  /\ journal[1].val.trusted_certs_len = k
                  /\ SubSeq(journal[1].val.certs, 1, k) = SubSeq(digs, 1, k)

\* C6 witness: the contract reports 2 of 3, the guest skips the two cached
\* links, checks the third and commits.
C6_Witness ==
    /\ CacheRunEnded /\ gpc = "done"
    /\ prep.answer = <<2>>
    /\ Len(ReportDers(raw_reports[1])) = 3
    /\ Len(journal) = 1

(* ----------------------- claims on batch proving ----------------------- *)

\* The journal of the i-th report of the batch: its own timestamp, the
\* complete path digests of its own chain, the prefix prepared for it.
IsJournalOf(j, i) ==
    /\ j.doc_timestamp = raw_reports[i].payload.timestamp
    /\ j.certs = ChainDigests(ReportDers(raw_reports[i]))
    /\ j.trusted_certs_len = prep.inputs[i].trustedCertsPrefixLen

\* C10: whatever order the parallel partial proofs complete in, the proofs
\* collected, the outputs of the aggregator's input and the outputs of the
\* batch journal each have one entry per report, the i-th being the journal
\* of the i-th report passed to prove_multiple_reports.
C10_BatchOrdering ==
    /\ hpc \in {"collected", "aggregated", "done"} =>
          /\ Len(proofs) = Len(raw_reports)
          /\ \A i \in 1..Len(proofs) :
                proofs[i].journal.abi /\ IsJournalOf(proofs[i].journal.val, i)
    /\ hpc \in {"aggregated", "done"} =>
          /\ Len(agg.input.outputs) = Len(raw_reports)
          /\ \A i \in 1..Len(raw_reports) : IsJournalOf(agg.input.outputs[i], i)
          /\ agg.proof.journal.val.outputs = agg.input.outputs
    /\ hpc = "done" => envelope.raw_proof = agg.proof
    /\ \A i \in 1..Len(tasks) :
          tasks[i].st = "ok" => IsJournalOf(tasks[i].proof.journal.val, i)

\* C10 witness: a batch of three with distinct journals at both ends whose
\* last proof completed while the first was still pending, aggregated.
C10_Witness ==
    /\ hpc = "done"
    /\ Len(raw_reports) = 3
    /\ raw_reports[1] # raw_reports[3]
    /\ agg.input.outputs[1] # agg.input.outputs[3]

\* C10 witness of the interleaving: the last task has finished before the
\* first has started.
C10_OutOfOrder ==
    /\ hpc = "proving" /\ Len(tasks) = 3
    /\ tasks[1].st = "pending" /\ tasks[3].st = "ok"
    /\ raw_reports[1] # raw_reports[3]

\* Report i of the batch, proved alone by prove_attestation_report under the
\* same contract, configuration and clock.
Alone(i) == prove_attestation_report(raw_reports[i], config, contract, current_time)
AllAloneOk == \A i \in 1..Len(raw_reports) : Alone(i).ok

\* The proving backend failed on task i: the guest run itself would commit.
BackendFailed(i) ==
    /\ tasks[i].st = "err"
    /\ VerifierGenProof(prep.inputs[i], DefaultTimestamp(prep.inputs[i]), "Composite").ok
NoBackendFailure == \A i \in 1..Len(tasks) : ~BackendFailed(i)

\* The outputs of a finished batch are the journals of the reports proved alone.
OutputsAsAlone ==
    hpc \in {"aggregated", "done"} =>
        /\ Len(agg.proof.journal.val.outputs) = Len(raw_reports)
        /\ \A i \in 1..Len(raw_reports) :
              /\ Alone(i).ok
              /\ abi_encode(agg.proof.journal.val.outputs[i])
                    = Alone(i).envelope.raw_proof.journal

CheckPasses(i) ==
    EnvVerify(areceipts, astdin.val.verifierVk, abi_encode(astdin.val.outputs[i]))
AllChecksPass ==
    abi_decode_ok(astdin) /\ \A i \in 1..Len(astdin.val.outputs) : CheckPasses(i)

\* C12: the Aggregator guest commits only after the composition check
\* against verifierVk has passed for every entry of outputs, in order; the
\* single committed BatchVerifierJournal has the input's verifierVk and the
\* input's outputs in the same order; if any one check fails, or the input
\* does not decode, the run aborts and nothing is committed.
C12_AggregatorCommitsAfterAllChecks ==
    /\ ajournal # <<>> =>
          /\ apc = "done" /\ AllChecksPass
          /\ averified = Len(astdin.val.outputs)
          /\ ajournal = <<abi_encode([verifierVk |-> astdin.val.verifierVk,
                                      outputs |-> astdin.val.outputs])>>
    /\ apc = "verifying" => \A i \in 1..averified : CheckPasses(i)
    /\ apc = "aborted" => ajournal = <<>> /\ ~AllChecksPass
    /\ apc = "done" => ajournal # <<>>
    /\ apc \in {"done", "aborted"} =>
          LET m == AggregatorMain(astdin, areceipts)
          IN  /\ m.ok <=> (apc = "done")
              /\ m.ok => ajournal = <<m.journal>>

\* C12 witness: three outputs, two of them different, each covered by an
\* assumption, committed.
C12_Witness ==
    /\ apc = "done" /\ Len(ainput.outputs) = 3 /\ averified = 3
    /\ ainput.outputs[1] # ainput.outputs[2]
    /\ ajournal # <<>>

\* C12, second case reached: the first check passed, the second failed.
C12_AbortedMidway ==
    /\ apc = "aborted" /\ averified = 1 /\ Len(ainput.outputs) = 3

(* ---------------------- claims on aggregate_proofs --------------------- *)

AllJournalsDecode == \A i \in 1..Len(proofs) : abi_decode_ok(proofs[i].journal)

\* C13: aggregate_proofs(proofs) calls aggregator.gen_proof exactly once,
\* with shape Groth16, verifierVk = verifier.verify_proof_id(), outputs the
\* decoded journals and assumptions the encoded proofs, both index-aligned
\* with proofs; if an inner journal does not decode it returns an error and
\* makes no call.
C13_AggregateProofsCall ==
    hpc \in {"aggregated", "failed", "done"} =>
        IF AllJournalsDecode
        THEN /\ Len(agg.calls) = 1
             /\ LET call == agg.calls[1]
                 IN  /\ call.program = "aggregator"
                     /\ call.kind = "Groth16"
                     /\ call.input = agg.input
                     /\ call.input.verifierVk = LocalProgramId.verifier_proof_id
                     /\ Len(call.input.outputs) = Len(proofs)
                     /\ Len(call.assumptions) = Len(proofs)
                     /\ \A i \in 1..Len(proofs) :
                           /\ abi_encode(call.input.outputs[i]) = proofs[i].journal
                           /\ call.assumptions[i] = proofs[i].encoded_proof
             /\ agg.ok <=>
                   AggregatorMain(abi_encode(agg.input),
                                  {proofs[i].encoded_proof : i \in 1..Len(proofs)}).ok
             /\ agg.ok => agg.proof.encoded_proof.kind = "Groth16"
        ELSE /\ agg.calls = <<>>
             /\ ~agg.ok /\ hpc = "failed" /\ envelope = NoEnvelope

\* C13 witness: three proofs, the first two with different journals, one call.
C13_Witness ==
    /\ hpc = "aggregated" /\ Len(proofs) = 3 /\ Len(agg.calls) = 1
    /\ proofs[1].journal # proofs[2].journal

\* C13, error case reached: the second journal does not decode.
C13_UndecodableReached ==
    /\ hpc = "failed" /\ Len(proofs) = 3 /\ ~abi_decode_ok(proofs[2].journal)
    /\ agg.calls = <<>>

(* ------------------- claims on partial-proof failures ------------------ *)

SomeTaskFailed == \E i \in 1..Len(tasks) : tasks[i].st = "err"

\* C14: in prove_multiple_reports, once the partial proof of any report has
\* failed the call can only end in an error, and it can: no list of proofs
\* is returned, the aggregator's gen_proof is never called and no envelope
\* is built, whatever the other reports' proofs did.
C14_OneFailureFailsBatch ==
    SomeTaskFailed =>
        /\ hpc \in {"proving", "failed"}
        /\ proofs = <<>>
        /\ agg.calls = <<>> /\ agg = NoAgg
        /\ envelope = NoEnvelope
        /\ hpc = "proving" =>
              /\ ENABLED (Collect /\ hpc' = "failed")
              /\ ~ENABLED (Collect /\ hpc' # "failed")
              /\ ~ENABLED AggregateProofs
              /\ ~ENABLED CreateOnchainProof

\* C14 witness: a batch of three failed with one proof done and one failed.
C14_Witness ==
    /\ hpc = "failed" /\ Len(tasks) = 3
    /\ \E i, j \in 1..3 : tasks[i].st = "ok" /\ tasks[j].st = "err"
    /\ envelope = NoEnvelope

(* ---------------------- claims on the fan-out bound -------------------- *)

\* gen_multi_composite_proofs has read the limit and handed out the tasks.
FanOutStarted == prep.ok /\ hpc \notin {"start", "prepared"}

\* The call can take a step: start a task, finish one, or return.
FanOutCanStep ==
    \/ ENABLED (\E i \in 1..Len(tasks) : WorkerStart(i))
    \/ ENABLED (\E i \in 1..Len(tasks) : WorkerFinish(i))
    \/ ENABLED Collect

\* The limit in force, the bound on calls in flight, and no input proved twice.
FanOutBounded ==
    FanOutStarted =>
        /\ env_concurrency.kind \in {"unset", "text"} => max_concurrency = 8
        /\ (env_concurrency.kind = "int" /\ env_concurrency.val < 0) => max_concurrency = 8
        /\ (env_concurrency.kind = "int" /\ env_concurrency.val >= 0) =>
              max_concurrency = env_concurrency.val
        /\ Cardinality(Running) <= max_concurrency
        /\ Len(tasks) = Len(raw_reports)
        /\ \A i \in 1..Len(tasks) :
              tasks[i].runs = IF tasks[i].st = "pending" THEN 0 ELSE 1
        /\ hpc \in {"collected", "aggregated", "done"} =>
              \A i \in 1..Len(tasks) : tasks[i].runs = 1 /\ tasks[i].st = "ok"

C15_DefaultReached ==
    /\ hpc = "proving" /\ env_concurrency.kind = "text" /\ max_concurrency = 8
    /\ Cardinality(Running) = 3

(* ------------------ claims on prepare_verifier_inputs ------------------ *)

\* prepare_verifier_inputs has returned.
Prepared == hpc \in {"prepared", "failed"}

\* The contract's answer to the cache query for the given reports.
CacheAnswer ==
    batch_query_cert_cache(contract,
        [i \in 1..Len(raw_reports) |-> cert_chain(raw_reports[i]).path_digest]).val

\* C16: when prepare_verifier_inputs succeeds it returns one VerifierInput
\* per report, in input order, with attestationReport the bytes of report i
\* and trustedCertsPrefixLen the contract's i-th cache answer, or
\* cfg.default_trusted_certs_prefix_length when no contract is configured;
\* it never returns a list of another length (a contract answer of another
\* length stops the call).
C16_OneInputPerReport ==
    Prepared =>
        /\ prep.ok =>
              /\ Len(prep.inputs) = Len(raw_reports)
              /\ \A i \in 1..Len(raw_reports) :
                    /\ prep.inputs[i].attestationReport = raw_reports[i]
                    /\ prep.inputs[i].trustedCertsPrefixLen =
                          IF contract.present THEN CacheAnswer[i]
                          ELSE config.default_trusted_certs_prefix_length
        /\ ~prep.ok => prep.inputs = <<>>
        /\ (contract.answers = "short" /\ raw_reports # <<>>) => ~prep.ok
        /\ prep.err = "panic" => Len(CacheAnswer) # Len(raw_reports)

\* C16 witness: three reports with three different cache answers, 1, 2 and 0.
C16_Witness ==
    /\ hpc = "prepared" /\ contract.present /\ Len(raw_reports) = 3
    /\ CacheAnswer = <<1, 2, 0>>
    /\ prep.inputs[2].trustedCertsPrefixLen = 2
    /\ raw_reports[1] # raw_reports[2]

\* C16, second case reached: no contract, the configured default of 0.
C16_DefaultReached ==
    /\ hpc = "prepared" /\ ~contract.present /\ Len(raw_reports) = 2
    /\ prep.inputs[1].trustedCertsPrefixLen = 0

\* The call got as far as the time check: the reports parsed, the program
\* identity was accepted or waved through, and the cache query answered.
ReachedTimeCheck == Prepared /\ prep.err \notin {"parse", "program_id", "cache"}

\* The limit the time check uses: the contract's, or three hours.
MaxTimeDiffUsed == IF contract.present THEN contract.maxTimeDiff ELSE 10800

\* Some report was signed more than the limit before current_time.
SomeReportTooOld ==
    \E i \in 1..Len(raw_reports) :
        (raw_reports[i].payload.timestamp \div 1000) + MaxTimeDiffUsed < current_time

C17_EqualityPasses ==
    /\ hpc = "prepared" /\ ~config.skip_time_validity_check
    /\ raw_reports # <<>>
    /\ \E i \in 1..Len(raw_reports) :
          (raw_reports[i].payload.timestamp \div 1000) + MaxTimeDiffUsed = current_time

\* C17, the flag: old reports are let through with
\* skip_time_validity_check set.
C17_SkippedReached ==
    /\ hpc = "prepared" /\ config.skip_time_validity_check
    /\ contract.present /\ SomeReportTooOld

\* The deployed zkConfig differs from the local ProgramId in some field.
ZkConfigMismatch ==
    \/ contract.zkConfig.verifierId # LocalProgramId.verifier_id
    \/ contract.zkConfig.verifierProofId # LocalProgramId.verifier_proof_id
    \/ contract.zkConfig.aggregatorId # LocalProgramId.aggregator_id

\* The cert cache of the contract was queried during the call.
CacheQueried ==
    \E k \in 1..Len(prep.calls) : prep.calls[k] = "checkTrustedIntermediateCerts"

\* C18: program-identity gating.  With a contract whose zkConfig differs from
\* the local ProgramId in verifierId, verifierProofId or aggregatorId:
\* with skip_contract_program_id_check false prepare_verifier_inputs fails,
\* the cert cache is never queried and no VerifierInput is produced; with the
\* flag true the call goes on to the cert-cache query (which reaches the
\* contract for a non-empty batch).
C18_ProgramIdGating ==
    (Prepared /\ contract.present /\ ZkConfigMismatch) =>
        /\ ~config.skip_contract_program_id_check =>
              /\ ~prep.ok /\ hpc = "failed"
              /\ ~CacheQueried
              /\ prep.inputs = <<>>
              /\ prep.err \in {"parse", "program_id"}
        /\ (config.skip_contract_program_id_check /\ prep.err # "parse") =>
              /\ prep.err # "program_id"
              /\ raw_reports # <<>> => CacheQueried

\* C18 witness: reports that parse, refused for a zkConfig that differs in
\* verifierProofId alone.
C18_Witness ==
    /\ hpc = "failed" /\ prep.err = "program_id" /\ raw_reports # <<>>
    /\ contract.zkConfig.verifierProofId # LocalProgramId.verifier_proof_id
    /\ contract.zkConfig.verifierId = LocalProgramId.verifier_id
    /\ contract.zkConfig.aggregatorId = LocalProgramId.aggregator_id

\* C18, the flag: the same mismatch waved through, the cache queried and
\* inputs returned.
C18_SkippedReached ==
    /\ hpc = "prepared" /\ contract.present /\ ZkConfigMismatch
    /\ config.skip_contract_program_id_check /\ CacheQueried
    /\ prep.inputs # <<>>

(* ------------------ claims on the contract client ---------------------- *)

\* Some chain of the request is empty or has more than 8 digests.
SomeChainOutOfRange ==
    \E i \in 1..Len(qarg) : Len(qarg[i]) = 0 \/ Len(qarg[i]) > 8

\* C19: batch_query_cert_cache rejects the whole request whenever some
\* report's digest chain is empty or longer than 8 entries: it returns an
\* error and no prefix length, and it does so before issuing the
\* checkTrustedIntermediateCerts call; when every chain has 1..8 entries the
\* chains are all sent in one call, as given.
C19_ChainLengthChecked ==
    hpc = "queried" =>
        /\ SomeChainOutOfRange =>
              (~qret.ok /\ qret.val = <<>> /\ ~qret.called /\ qret.sent = <<>>)
        /\ (~SomeChainOutOfRange /\ qarg # <<>>) =>
              (qret.called /\ qret.sent = qarg)
        /\ qarg = <<>> => (qret.ok /\ ~qret.called /\ qret.val = <<>>)

\* C19 witness: a request whose second chain has 9 digests, the first being
\* in range, is refused without a call.
C19_Witness ==
    /\ hpc = "queried" /\ Len(qarg) >= 2
    /\ Len(qarg[1]) = 8 /\ Len(qarg[2]) = 9
    /\ ~qret.ok /\ ~qret.called

\* C19, in range: chains of 1 and of 8 digests sent together.
C19_SentReached ==
    /\ hpc = "queried" /\ Len(qarg) = 2
    /\ Len(qarg[1]) = 1 /\ Len(qarg[2]) = 8
    /\ qret.called /\ qret.sent = qarg

\* C19, the other end: an empty chain refuses the request.
C19_EmptyChainReached ==
    /\ hpc = "queried" /\ Len(qarg) = 2
    /\ qarg[1] = <<>> /\ Len(qarg[2]) = 2
    /\ ~qret.ok /\ ~qret.called

\* C20: verify_on_chain dispatch.  It fails when no contract is configured;
\* it fails without any contract call when the envelope's onchainProof is
\* empty, as it is for a Composite receipt; otherwise it issues exactly one
\* call, verify for proofType Verifier and batchVerify for Aggregator, with
\* the envelope's journal, zkType and onchainProof, and what it returns on
\* the call's success is Single for verify and Batch for batchVerify.
C20_VerifyOnChainDispatch ==
    hpc = "verified" =>
        /\ ~contract.present => (~vret.ok /\ vret.calls = <<>>)
        /\ envelope.onchain_proof = <<>> => (~vret.ok /\ vret.calls = <<>>)
        /\ envelope.raw_proof.encoded_proof.kind = "Composite" =>
              envelope.onchain_proof = <<>>
        /\ (contract.present /\ envelope.onchain_proof # <<>>) =>
              /\ Len(vret.calls) = 1
              /\ vret.calls[1].method =
                    IF envelope.proof_type = "Verifier" THEN "verify" ELSE "batchVerify"
              /\ vret.calls[1].output = envelope.raw_proof.journal
              /\ vret.calls[1].zkCoprocessor = envelope.zktype
              /\ vret.calls[1].proofBytes = envelope.onchain_proof
              /\ vret.ok =>
                    vret.kind = IF envelope.proof_type = "Verifier" THEN "Single"
                                ELSE "Batch"
              /\ ~vret.ok => vret.kind = "none"

\* C20 witness: an Aggregator envelope sent to batchVerify and answered.
C20_Witness ==
    /\ hpc = "verified" /\ envelope.proof_type = "Aggregator"
    /\ vret.ok /\ vret.kind = "Batch"
    /\ Len(vret.calls) = 1 /\ vret.calls[1].method = "batchVerify"

\* C20, the single path: a Verifier envelope sent to verify and answered.
C20_SingleReached ==
    /\ hpc = "verified" /\ envelope.proof_type = "Verifier"
    /\ vret.ok /\ vret.kind = "Single"
    /\ Len(vret.calls) = 1 /\ vret.calls[1].method = "verify"

\* C20, no on-chain proof: a Composite envelope refused with a contract
\* configured and no call made.
C20_EmptyProofReached ==
    /\ hpc = "verified" /\ contract.present
    /\ envelope.raw_proof.encoded_proof.kind = "Composite"
    /\ ~vret.ok /\ vret.err = "no_onchain_proof" /\ vret.calls = <<>>

\* C20, no contract: a Groth16 envelope refused for want of a contract.
C20_NoContractReached ==
    /\ hpc = "verified" /\ ~contract.present
    /\ envelope.onchain_proof # <<>>
    /\ ~vret.ok /\ vret.err = "no_contract"

(* ------------------ claims on whole sessions --------------------------- *)

\* The contract methods the prover has invoked so far, in order.
ContractLog ==
    prep.calls \o [k \in 1..Len(vret.calls) |-> vret.calls[k].method]

C21_SingleReached ==
    /\ hpc = "verified" /\ Len(raw_reports) = 1
    /\ ContractLog = <<"zkConfig", "maxTimeDiff", "checkTrustedIntermediateCerts",
                       "verify">>

(* ------------------ claims on the chain, continued --------------------- *)

\* The certificates of the chain whose window excludes t.
Excluding(t) == {i \in 1..Len(certs) : ~(certs[i].nb <= t /\ t <= certs[i].na)}

\* What C22 says of a check_valid(t) call that has returned.
Min(S) == CHOOSE x \in S : \A y \in S : x <= y
CheckValidAsClaimed(t) ==
    /\ (ret.res = "ok") <=> (certs # <<>> /\ Excluding(t) = {})
    /\ (ret.res = "err" /\ certs # <<>>) => ret.checked = {Min(Excluding(t))}

\* C22: check_valid(t) succeeds if and only if the chain is non-empty and
\* every certificate satisfies notBefore <= t <= notAfter, both inclusive; on
\* failure it reports the index of the first certificate, root first, whose
\* window excludes t.
C22_Original ==
    ret.op = "check_valid" => CheckValidAsClaimed(ret.arg)

\* The same for the timestamps that `as i64` leaves unchanged and
\* ASN1Time::from_timestamp accepts: there the claim holds.
C22_InRange ==
    (ret.op = "check_valid" /\ AsI64(ret.arg) = ret.arg /\ ret.arg \in Asn1Times)
        => CheckValidAsClaimed(ret.arg)

\* C22 witness: check_valid at the largest u64 succeeds on a chain issued
\* before the epoch; read as i64 the time is -1.
C22_Witness ==
    /\ ret.op = "check_valid" /\ ret.arg = TimestampSpace - 1 /\ ret.res = "ok"
    /\ Len(certs) >= 2

\* C22, the ordinary case: the second certificate reported, the first and
\* the third being valid and not.
C22_IndexReached ==
    /\ ret.op = "check_valid" /\ ret.arg = 0 /\ Len(certs) = 3
    /\ ret.res = "err" /\ ret.checked = {2}
    /\ Excluding(0) = {2, 3}

\* C23: the CertChain invariant.  In every state reached by add_cert_by_der
\* calls (parse and parse_rev are sequences of them) certs and path_digest
\* have the same length; an add that fails leaves both lists as they were;
\* and a chain returned by authenticate is not empty.
C23_CertChainInvariant ==
    /\ [](Len(certs) = Len(path_digest))
    /\ []((ret.op = "authenticate" /\ ret.res = "ok") => Len(certs) >= 1)
    /\ [][(ret'.op = "add" /\ ret'.res = "err") =>
            (certs' = certs /\ path_digest' = path_digest)]_vars
    /\ [][(ret'.op = "add" /\ ret'.res = "ok") =>
            (Len(certs') = Len(certs) + 1 /\ Len(path_digest') = Len(path_digest) + 1)]_vars

\* C23 witness: an add refused on a chain that already holds two
\* certificates.
C23_Witness ==
    /\ ret.op = "add" /\ ret.res = "err" /\ Len(certs) = 2 /\ Len(path_digest) = 2

\* C23, authenticate: a chain of MaxChain certificates returned.
C23_AuthenticatedReached ==
    /\ ret.op = "authenticate" /\ ret.res = "ok" /\ Len(certs) = MaxChain

(* ------------------ claims on the guest, continued --------------------- *)

\* C24: the PCR filter.  The journal's pcrs list holds exactly the (index,
\* value) pairs of the document's pcrs map whose 48-byte value is not all
\* zero, each once, in strictly ascending index order, the value split as
\* first = bytes 0..32 and second = bytes 32..48.
C24_PcrFilter ==
    gpc = "done" =>
        LET m == ginput.attestation_report.payload.pcrs
            out == journal[1].val.pcrs
            nonzero == {i \in DOMAIN m : \E w \in 1..3 : m[i][w] # 0}
        IN  /\ {out[k].index : k \in 1..Len(out)} = nonzero
            /\ Len(out) = Cardinality(nonzero)
            /\ \A k \in 1..(Len(out) - 1) : out[k].index < out[k + 1].index
            /\ \A k \in 1..Len(out) :
                  /\ out[k].value.first = <<m[out[k].index][1], m[out[k].index][2]>>
                  /\ out[k].value.second = <<m[out[k].index][3]>>

\* C24 witness: PCR 1 all zero is dropped; PCR 0, non-zero in its last 16
\* bytes only, and PCR 2 are kept, in that order.
C24_Witness ==
    /\ gpc = "done"
    /\ ginput.attestation_report.payload.pcrs =
          [i \in 0..2 |-> IF i = 0 THEN <<0, 0, 1>>
                          ELSE IF i = 1 THEN ZeroPcr ELSE <<1, 0, 0>>]
    /\ Len(journal[1].val.pcrs) = 2
    /\ journal[1].val.pcrs[1].index = 0 /\ journal[1].val.pcrs[2].index = 2

(* ---------------------------------- C25 ---------------------------------- *)

\* The call at hand, its header, and the COSE value of the caller's
\* algorithm: -7 for ES256, -35 for ES384, -36 for ES512.
CoseCalled == ret.op = "verify_signature"
CoseHeader == raw_reports[1].protected
CallerValue ==
    CASE ret.arg[1] = "EcdsaSHA256" -> ES256
      [] ret.arg[1] = "EcdsaSHA384" -> ES384
      [] OTHER -> -36
CoseOutcomeAsClaimed ==
    LET h == CoseHeader
        r == raw_reports[1]
    IN  /\ (~h.hasAlg \/ ~h.isInt) => (ret.res = "err" /\ ret.checked = {})
        /\ (h.hasAlg /\ h.isInt /\ h.alg # CallerValue)
               => (ret.res = "false" /\ ret.checked = {})
        /\ (h.hasAlg /\ h.isInt /\ h.alg = CallerValue)
               => /\ ret.checked = {"sig"}
                  /\ ret.res = IF r.sigBy = ret.arg[2]
                                   /\ r.sigOver = SigStructure(h, r.payload)
                                THEN "true" ELSE "false"
        /\ ret.checked = {"sig"} => (h.hasAlg /\ h.isInt /\ h.alg = CallerValue)

\* C25 as stated: for every caller algorithm, verify_signature returns false
\* without checking the signature when the protected header's integer
\* algorithm entry differs from the caller's, returns an error when the
\* entry is missing or is not an integer, and only when the entry equals the
\* caller's algorithm checks the signature over the Sig_structure.
C25_Original == CoseCalled => CoseOutcomeAsClaimed

\* C25, amended: that holds for the caller algorithms ES256 and ES384; for
\* any other caller algorithm verify_signature returns an error whatever the
\* header holds, and checks no signature.
C25_AlgorithmHeader ==
    CoseCalled =>
        IF ret.arg[1] \in {"EcdsaSHA256", "EcdsaSHA384"}
        THEN CoseOutcomeAsClaimed
        ELSE ret.res = "err" /\ ret.checked = {}

\* An ES256 header met by an ES384 caller under the signing key: false.
C25_Witness ==
    /\ CoseCalled /\ ret.arg[1] = "EcdsaSHA384"
    /\ CoseHeader.hasAlg /\ CoseHeader.isInt /\ CoseHeader.alg = ES256
    /\ ret.arg[2] = raw_reports[1].sigBy
    /\ ret.res = "false" /\ ret.checked = {}

\* A text entry under key 1 is an error.
C25_TextEntryReached ==
    CoseCalled /\ ~CoseHeader.isInt /\ ret.res = "err"

\* Equal algorithms and the signing key: the signature is checked and holds.
C25_CheckedReached ==
    CoseCalled /\ ret.checked = {"sig"} /\ ret.res = "true"

\* A caller algorithm without a COSE value meets an integer entry: an error.
C25_UnsupportedCallerReached ==
    /\ CoseCalled /\ ret.arg[1] = "EcdsaSHA512"
    /\ CoseHeader.hasAlg /\ CoseHeader.isInt /\ ret.res = "err"

(* ---------------------------------- C26 ---------------------------------- *)

ConfigBuilt == hpc # "off"
ConfigDefault == config.default_trusted_certs_prefix_length

\* C26 as stated: the default trusted-prefix length of every ProverConfig
\* the constructors build lies in 0..8 for every value of
\* DEFAULT_TRUSTED_CERTS_PREFIX_LENGTH, and is 1 when the variable is unset.
C26_Original ==
    ConfigBuilt =>
        /\ ConfigDefault \in 0..8
        /\ env_prefix_length.kind = "unset" => ConfigDefault = 1

\* C26, amended: the default lies in 0..255; it is the variable's value
\* when that is an integer in 0..255, and 1 when the variable is unset or
\* is anything else. Without a contract, every prepared input carries it.
C26_PrefixLengthDefault ==
    ConfigBuilt =>
        /\ ConfigDefault \in 0..U8Max
        /\ env_prefix_length.kind = "unset" => ConfigDefault = 1
        /\ env_prefix_length.kind = "text" => ConfigDefault = 1
        /\ env_prefix_length.kind = "int" =>
              ConfigDefault = IF env_prefix_length.val < 0
                                 \/ env_prefix_length.val > U8Max
                              THEN 1 ELSE env_prefix_length.val
        /\ (prep.ok /\ ~contract.present) =>
              \A i \in 1..Len(prep.inputs) :
                  prep.inputs[i].trustedCertsPrefixLen = ConfigDefault

\* The variable set to 9: the configuration holds 9 and a prepared input
\* carries it.
C26_Witness ==
    /\ env_prefix_length = EnvInt(9) /\ ConfigDefault = 9
    /\ prep.ok /\ ~contract.present /\ Len(prep.inputs) >= 1
    /\ prep.inputs[1].trustedCertsPrefixLen = 9

\* The variable unset: the default is 1.
C26_UnsetReached ==
    ConfigBuilt /\ env_prefix_length = EnvUnset /\ ConfigDefault = 1

\* A value past the u8 range does not parse: the default is 1.
C26_UnparsedReached ==
    ConfigBuilt /\ env_prefix_length = EnvInt(U8Max + 1) /\ ConfigDefault = 1

(* ---------------------------------- C27 ---------------------------------- *)

\* The input decoded and its report parsed, with a trusted prefix longer
\* than the report's chain of |cabundle| + 1 certificates.
PrefixLongerThanChain ==
    /\ stdin.abi /\ stdin.val.attestation_report.cbor
    /\ stdin.val.trusted_certs_len
          > Len(stdin.val.attestation_report.payload.cabundle) + 1

\* C27: every committed journal has a trusted prefix length of at most the
\* length of its certs list; an input whose prefix is longer than the chain
\* makes the guest abort at verify_chain without committing.
C27_PrefixWithinChain ==
    /\ \A k \in 1..Len(journal) :
          journal[k].val.trusted_certs_len <= Len(journal[k].val.certs)
    /\ (PrefixLongerThanChain /\ gpc \notin {"start", "decoded"}) =>
          /\ gpc = "aborted" /\ journal = <<>>
          /\ output.err \in {"cert", "chain"}

\* An honestly signed report whose whole chain of two is trusted, with the
\* prefix one longer: the guest aborts at verify_chain.
C27_Witness ==
    /\ PrefixLongerThanChain /\ gpc = "aborted" /\ output.err = "chain"
    /\ stdin.val.trusted_certs_len = 3
    /\ stdin.val.attestation_report
          = CoseReport(Doc(1000, BaseChain(1, 2)), ChainKey(1, 2), "ok")

\* The boundary: a journal committed with the whole chain trusted.
C27_WholeChainTrustedReached ==
    /\ journal # <<>>
    /\ journal[1].val.trusted_certs_len = Len(journal[1].val.certs)

(* ---------------------------------- C28 ---------------------------------- *)

\* The report does not parse, or one of its certificates does not.
Malformed(r) ==
    \/ ~r.cbor
    \/ ~r.payload.certificate.wf
    \/ \E i \in 1..Len(r.payload.cabundle) : ~r.payload.cabundle[i].wf
MalformedAt == {i \in 1..Len(raw_reports) : Malformed(raw_reports[i])}

\* C28: prepare_verifier_inputs parses every report and builds its chain
\* before any contract interaction: with a malformed report at any position
\* it fails having made no contract call, and a contract call is made only
\* when every report parsed.
C28_ParseBeforeContract ==
    hpc # "start" =>
        /\ MalformedAt # {} =>
              (~prep.ok /\ prep.err = "parse" /\ prep.calls = <<>>)
        /\ prep.calls # <<>> => MalformedAt = {}
        /\ prep.err = "parse" => MalformedAt # {}

\* A contract is configured and only the last of several reports is
\* malformed: the call fails with no contract call made.
C28_Witness ==
    /\ hpc = "failed" /\ contract.present
    /\ Len(raw_reports) >= 2 /\ MalformedAt = {Len(raw_reports)}
    /\ prep.err = "parse" /\ prep.calls = <<>>

\* A report whose second certificate is not DER, behind a well-formed one.
C28_BadCertificateReached ==
    /\ hpc = "failed" /\ contract.present /\ prep.calls = <<>>
    /\ \E i \in MalformedAt : i > 1 /\ raw_reports[i].cbor

\* Every report parsed: the contract is called.
C28_CallsReached ==
    hpc = "prepared" /\ contract.present /\ Len(raw_reports) >= 2
        /\ prep.calls # <<>>

(* ---------------------------------- C29 ---------------------------------- *)

\* prove_multiple_reports was called on the empty list.
EmptyBatch == raw_reports = <<>>
EmptyBatchInput ==
    [verifierVk |-> LocalProgramId.verifier_proof_id, outputs |-> <<>>]

\* What the empty batch does on its way: no certificate-cache call and no
\* staleness failure in prepare_verifier_inputs, no partial proof, one
\* aggregator.gen_proof call with no outputs and no assumptions, and an
\* Aggregator envelope whose batch journal has no outputs.
EmptyBatchPath ==
    /\ \A k \in 1..Len(prep.calls) : prep.calls[k] # "checkTrustedIntermediateCerts"
    /\ prep.err \notin {"parse", "cache", "stale", "panic"}
    /\ hpc \notin {"start", "failed"} => (prep.ok /\ prep.inputs = <<>>)
    /\ tasks = <<>> /\ proofs = <<>>
    /\ hpc \in {"aggregated", "done", "verified"} =>
          /\ agg.ok
          /\ agg.calls = <<GenProofCall("Groth16", EmptyBatchInput, <<>>)>>
    /\ hpc \in {"done", "verified"} =>
          /\ envelope.proof_type = "Aggregator"
          /\ envelope.raw_proof.journal = abi_encode(EmptyBatchInput)
    /\ hpc \notin {"failed", "verified"} => ENABLED NextSession

\* C29 as stated: the empty batch is never rejected; it takes that path to
\* an Aggregator envelope whatever the prover's contract and configuration.
C29_Original == EmptyBatch => (EmptyBatchPath /\ hpc # "failed")

\* C29, amended: the empty batch takes that path unless a contract is
\* configured whose zkConfig does not match the local program ids and the
\* program-id check is not skipped; then, and only then, it fails, in
\* prepare_verifier_inputs, before any proof is generated.
C29_EmptyBatch ==
    EmptyBatch =>
        /\ EmptyBatchPath
        /\ hpc = "failed" <=>
              /\ prep.err = "program_id"
              /\ contract.present
              /\ contract.zkConfig # ZkConfigOf(LocalProgramId)
              /\ ~config.skip_contract_program_id_check
        /\ hpc = "failed" => (agg = NoAgg /\ envelope = NoEnvelope)

\* The empty batch against a matching contract: an Aggregator envelope with
\* no outputs, after two contract reads and one gen_proof call.
C29_Witness ==
    /\ EmptyBatch /\ hpc = "done" /\ contract.present
    /\ prep.calls = <<"zkConfig", "maxTimeDiff">>
    /\ Len(agg.calls) = 1 /\ agg.calls[1].assumptions = <<>>
    /\ envelope.proof_type = "Aggregator"
    /\ envelope.raw_proof.journal.val.outputs = <<>>

\* The empty batch without a contract.
C29_NoContractReached ==
    EmptyBatch /\ hpc = "done" /\ ~contract.present /\ prep.calls = <<>>

\* The empty batch against a contract with other program ids: rejected.
C29_RejectedReached ==
    EmptyBatch /\ hpc = "failed" /\ prep.err = "program_id"

(* ---------------------------------- C30 ---------------------------------- *)

\* The max_time_diff prepare_verifier_inputs used, and the reports that are
\* older than it at current_time when the sum is taken in the integers.
TimeDiffUsed == IF contract.present THEN contract.maxTimeDiff ELSE 3600 * 3
TooOldUnbounded ==
    {i \in 1..Len(raw_reports) :
        (raw_reports[i].payload.timestamp \div 1000) + TimeDiffUsed < current_time}
TimeTestReached == hpc # "start" /\ prep.err \notin {"parse", "program_id", "cache"}
NoSumPastWidth ==
    \A i \in 1..Len(raw_reports) :
        (raw_reports[i].payload.timestamp \div 1000) + TimeDiffUsed < TimestampSpace

\* C30 as stated: for every 64-bit timestamp and every uint64 maxTimeDiff
\* the staleness test agrees with the comparison in the integers: the call
\* fails as stale exactly when some report is too old and the check is not
\* skipped, and the sum never overflows.
C30_Original ==
    TimeTestReached =>
        /\ prep.err # "overflow"
        /\ prep.err = "stale" <=>
              (TooOldUnbounded # {} /\ ~config.skip_time_validity_check)

\* The test does agree whenever every sum stays below 2^64, in either build.
C30_InRange == (TimeTestReached /\ NoSumPastWidth) => C30_Original

\* A release build, maxTimeDiff = 2^64 - 1: a report signed MaxTime seconds
\* after the epoch is rejected as stale although no report is too old.
C30_Witness ==
    /\ TimeTestReached /\ ~overflow_checks
    /\ contract.present /\ contract.maxTimeDiff = TimestampSpace - 1
    /\ prep.err = "stale" /\ TooOldUnbounded = {}

\* A build with overflow checks panics on the same input.
C30_PanicReached ==
    /\ TimeTestReached /\ overflow_checks
    /\ prep.err = "overflow" /\ TooOldUnbounded = {}

\* Without a contract no sum passes the width.
C30_NoContractInRange == ~contract.present => NoSumPastWidth

====
